---- MODULE Spec2Model ----
(***************************************************************************)
(* A model of mach_ports_rs: the reusable message Buffer, the message      *)
(* Builder, and the port right wrappers with the kernel state they         *)
(* account against.                                                        *)
(*                                                                         *)
(* Bytes are integers 0..255.  Memory that lies outside the block a Buffer *)
(* owns is not the Buffer's: a byte written there may or may not be read   *)
(* back, so such a byte is either the byte written or Junk.                *)
(***************************************************************************)
EXTENDS Integers, Sequences, FiniteSets, TLC

(***************************************************************************)
(* Bounds of the model.                                                    *)
(***************************************************************************)
MaxCap == 4
MaxChunk == 3
MaxLen == 6
NumBytes == 2
NumNames == 4
MaxRefs == 4
MaxAllocs == 2
MaxOps == 3
MaxMsgOps == 2
MaxVecOps == 2
BigCap == 17

(***************************************************************************)
(* Program constants.                                                      *)
(***************************************************************************)
HeaderSize == 24
HeaderAlign == 4
SIZE_SIZE == 4
MACH_PORT_NULL == 0
PortDescSize == 12
OolDescSize == 16
OolPortsDescSize == 16
MACH_MSG_PORT_DESCRIPTOR == 0
MACH_MSG_OOL_DESCRIPTOR == 1
MACH_MSG_OOL_PORTS_DESCRIPTOR == 2
MACH_MSG_OOL_VOLATILE_DESCRIPTOR == 3
MACH_MSG_TYPE_MOVE_RECEIVE == 16
MACH_MSG_TYPE_MOVE_SEND == 17
MACH_MSG_TYPE_MOVE_SEND_ONCE == 18
MACH_MSG_TYPE_COPY_SEND == 19
MACH_MSG_TYPE_MAKE_SEND == 20
MACH_MSG_TYPE_MAKE_SEND_ONCE == 21
MACH_MSG_TYPE_COPY_RECEIVE == 22
MACH_MSGH_BITS_REMOTE_MASK == 31
MACH_MSG_PHYSICAL_COPY == 0
MACH_MSG_VIRTUAL_COPY == 1
DanglingAddress == 1

Junk == 0 - 1

\* page_size::get_granularity() of the targets the crate builds for
PageSize == 16384

Max(a, b) == IF a >= b THEN a ELSE b

VARIABLES
    buffer,       \* the Buffer: header, len, capacity, body bytes
    debug_build,  \* TRUE: overflow checks and debug assertions are compiled in
    panicked,     \* a panic has unwound the calling thread
    kernel,       \* the task's IPC space
    held,         \* the live right wrappers of the program, per class and name
    ools,         \* the live OolBuf values of the program
    builder,      \* the Builder over the buffer, if there is one
    g,            \* history: what the operations did so far
    queue,        \* the messages queued on the ports, oldest first
    memory,       \* the contents of the regions the kernel has mapped so far
    parser,       \* the parser over the buffer, if there is one
    io,           \* history: what send, recv and the parsers did so far
    vec,          \* the OolVec or OolBuf of the program and what was done to it
    err           \* a SendError or RecvError and what was done to it

vars == <<buffer, debug_build, panicked, kernel, held, ools, builder, g,
          queue, memory, parser, io, vec, err>>

\* The values that stand on their own, which the operations on messages and
\* rights leave alone.
values == <<vec, err>>

\* The state of the message transfer, which the operations on the values
\* that stand on their own leave alone.
msgvars == <<queue, memory, parser, io>>

\* What the operations on the buffer, the builder and the wrappers leave
\* alone.
ipcvars == <<msgvars, values>>

(***************************************************************************)
(* msg/mod.rs: MachMsgBits, the msgh_bits word as its four bytes           *)
(* <<remote, local, voucher, top>>; the complex flag is bit 7 of top.      *)
(***************************************************************************)
ZeroBits == [b0 |-> 0, b1 |-> 0, b2 |-> 0, b3 |-> 0]

ComplexBit == 128

\* byte & MACH_MSGH_BITS_REMOTE_MASK
MaskPort(byte) == byte % (MACH_MSGH_BITS_REMOTE_MASK + 1)

\* MachMsgBits::new; its assertions are NewBitsOk
MachMsgBits_new(complex, remote, local, voucher) ==
    [b0 |-> remote, b1 |-> local, b2 |-> voucher,
     b3 |-> IF complex THEN ComplexBit ELSE 0]

NewBitsOk(remote, local, voucher) ==
    remote = MaskPort(remote) /\ local = MaskPort(local) /\ voucher = MaskPort(voucher)

\* MachMsgBits::from_bits asserts value == value & MACH_MSGH_BITS_USER
FromBitsOk(bits) ==
    /\ bits.b0 = MaskPort(bits.b0) /\ bits.b1 = MaskPort(bits.b1)
    /\ bits.b2 = MaskPort(bits.b2) /\ bits.b3 \in {0, ComplexBit}

remote(bits) == MaskPort(bits.b0)
local(bits) == MaskPort(bits.b1)
voucher(bits) == MaskPort(bits.b2)
complex(bits) == (bits.b3 \div ComplexBit) % 2 = 1

\* (self.0 & !MASK) | bits, on the byte of the field
set_remote(bits, v) == [bits EXCEPT !.b0 = (@ - MaskPort(@)) + v]
set_local_over(bits, v) == [bits EXCEPT !.b1 = @ + v]
set_local(bits, v) == [bits EXCEPT !.b1 = (@ - MaskPort(@)) + v]
into_complex(bits) == [bits EXCEPT !.b3 = IF complex(bits) THEN @ ELSE @ + ComplexBit]

ZeroHeader ==
    [msgh_bits |-> ZeroBits, msgh_size |-> 0, msgh_remote_port |-> MACH_PORT_NULL,
     msgh_local_port |-> MACH_PORT_NULL, msgh_voucher_port |-> MACH_PORT_NULL,
     msgh_id |-> 0]

(***************************************************************************)
(* msg/buffer.rs                                                           *)
(***************************************************************************)
\* Size of the block: the header followed by capacity bytes, padded to the
\* header's alignment.
layout_for_capacity(capacity) ==
    ((HeaderSize + capacity + HeaderAlign - 1) \div HeaderAlign) * HeaderAlign

\* Number of body bytes that lie inside the allocated block.
BlockBody(capacity) == layout_for_capacity(capacity) - HeaderSize

\* The contents a body can be read back as after the block has moved: bytes
\* inside the old block are kept, the bytes written past its end are either
\* all found again or all lost (Junk).
Settle(bytes, block) ==
    IF Len(bytes) <= block THEN {bytes}
    ELSE {bytes, SubSeq(bytes, 1, block) \o [i \in 1..(Len(bytes) - block) |-> Junk]}

with_capacity(capacity) ==
    [header |-> ZeroHeader, len |-> 0, capacity |-> capacity, body |-> <<>>]

\* realloc copies the old block only: body bytes that were outside it are not
\* carried over reliably.
reserve(b, additional) ==
    LET requested_capacity == b.len + additional
        old_capacity == b.capacity
        new_capacity == Max(old_capacity \div 2, additional) + old_capacity
    IN  IF requested_capacity > old_capacity
        THEN {[b EXCEPT !.capacity = new_capacity, !.body = s] :
                  s \in Settle(b.body, BlockBody(old_capacity))}
        ELSE {b}

\* `self.capacity - self.len < n` on u32: with len > capacity the subtraction
\* wraps to 2^32 - (len - capacity), which exceeds every n of the model (a
\* build with overflow checks panics instead, see SubOverflows).
SpaceLeftLess(b, n) ==
    IF b.capacity >= b.len THEN b.capacity - b.len < n ELSE FALSE

SubOverflows(b, dbg) == dbg /\ b.capacity < b.len

Done(b) == [ok |-> TRUE, b |-> b]
Fail(b) == [ok |-> FALSE, b |-> b]

append(b, bytes, dbg) ==
    IF SubOverflows(b, dbg) THEN {Fail(b)}
    ELSE
    LET appended_len == Len(bytes)
        reserved == IF SpaceLeftLess(b, appended_len)
                    THEN reserve(b, appended_len - (b.capacity - b.len))
                    ELSE {b}
    IN  UNION {{Done([r EXCEPT !.body = s, !.len = r.len + appended_len]) :
                    s \in Settle(r.body \o bytes, BlockBody(r.capacity))} :
               r \in reserved}

insert(b, at, bytes, dbg) ==
    IF ~(at <= b.len) THEN {Fail(b)}
    ELSE IF SubOverflows(b, dbg) THEN {Fail(b)}
    ELSE
    LET inserted_len == Len(bytes)
        final_len == inserted_len + at
        reserved == IF SpaceLeftLess(b, final_len)
                    THEN reserve(b, final_len - (b.capacity - b.len))
                    ELSE {b}
    IN  UNION {{Done([r EXCEPT !.body = s, !.len = r.len + inserted_len]) :
                    s \in Settle(SubSeq(r.body, 1, at) \o bytes
                                    \o SubSeq(r.body, at + 1, r.len),
                                 BlockBody(r.capacity))} :
               r \in reserved}

(***************************************************************************)
(* The kernel side of rights.rs: the IPC space of the task.  An entry of   *)
(* the space is free, or holds a receive right, send rights (with a user   *)
(* reference count), both, a send-once right, or a dead name.              *)
(***************************************************************************)
Names == 1..NumNames

FreeEntry == [type |-> "free", urefs |-> 0, port |-> 0]

EmptyKernel == [space |-> [n \in Names |-> FreeEntry], ports |-> {}, vm |-> {}]

\* Address of the r-th region handed out by mach_vm_allocate.
VmAddress(r) == r * PageSize

\* The pages a range of addresses touches: the kernel works on whole pages.
Pages(address, size) ==
    IF size <= 0 THEN {}
    ELSE {p * PageSize :
            p \in (address \div PageSize)..((address + size - 1) \div PageSize)}

\* mach_vm_allocate(task, &address, size, VM_FLAGS_ANYWHERE)
mach_vm_allocate(k, address, size) ==
    [k EXCEPT !.vm = @ \cup Pages(address, size)]

\* mach_vm_deallocate(task, address, size)
mach_vm_deallocate(k, address, size) ==
    [k EXCEPT !.vm = @ \ Pages(address, size)]

HasReceive(e) == e.type \in {"recv", "send_recv"}
HasSend(e) == e.type \in {"send", "send_recv"}

\* The port of a receive right is destroyed: the name keeps its send
\* references as a dead name, and every other right to the port dies too.
DestroyPort(k, name) ==
    LET p == k.space[name].port
        dead(e) == [type |-> "dead", urefs |-> e.urefs, port |-> 0]
    IN  [k EXCEPT
           !.ports = @ \ {p},
           !.space = [n \in Names |->
               IF n = name
               THEN IF HasSend(k.space[n]) THEN dead(k.space[n]) ELSE FreeEntry
               ELSE IF k.space[n].port = p /\ k.space[n].type # "free"
                    THEN dead(k.space[n])
                    ELSE k.space[n]]]

\* mach_port_mod_refs(task, name, right, delta)
mach_port_mod_refs(k, name, right, delta) ==
    LET e == k.space[name]
        ret(kr, k2) == [kr |-> kr, k |-> k2]
        newrefs == e.urefs + delta
        counted == IF newrefs = 0
                   THEN IF e.type = "send_recv"
                        THEN [e EXCEPT !.type = "recv", !.urefs = 0]
                        ELSE FreeEntry
                   ELSE [e EXCEPT !.urefs = newrefs]
    IN  IF name \notin Names \/ e.type = "free"
        THEN ret("KERN_INVALID_NAME", k)
        ELSE CASE right = "RECEIVE" ->
                    IF ~HasReceive(e) THEN ret("KERN_INVALID_RIGHT", k)
                    ELSE IF delta = 0 THEN ret("KERN_SUCCESS", k)
                    ELSE IF delta # 0 - 1 THEN ret("KERN_INVALID_VALUE", k)
                    ELSE ret("KERN_SUCCESS", DestroyPort(k, name))
               [] right = "SEND" ->
                    IF ~HasSend(e) THEN ret("KERN_INVALID_RIGHT", k)
                    ELSE IF newrefs < 0 THEN ret("KERN_INVALID_VALUE", k)
                    ELSE ret("KERN_SUCCESS", [k EXCEPT !.space[name] = counted])
               [] right = "SEND_ONCE" ->
                    IF e.type # "send_once" THEN ret("KERN_INVALID_RIGHT", k)
                    ELSE IF delta = 0 THEN ret("KERN_SUCCESS", k)
                    ELSE IF delta # 0 - 1 THEN ret("KERN_INVALID_VALUE", k)
                    ELSE ret("KERN_SUCCESS", [k EXCEPT !.space[name] = FreeEntry])
               [] right = "DEAD_NAME" ->
                    IF e.type # "dead" THEN ret("KERN_INVALID_RIGHT", k)
                    ELSE IF newrefs < 0 THEN ret("KERN_INVALID_VALUE", k)
                    ELSE ret("KERN_SUCCESS", [k EXCEPT !.space[name] = counted])

\* mach_port_allocate(task, MACH_PORT_RIGHT_RECEIVE, &name): a new port under
\* the name the kernel picks (the lowest free one).
mach_port_allocate(k, name) ==
    LET p == CHOOSE q \in Names : q \notin k.ports
    IN  [k EXCEPT !.ports = @ \cup {p},
                  !.space[name] = [type |-> "recv", urefs |-> 0, port |-> p]]

\* mach_port_insert_right(task, name, name, MACH_MSG_TYPE_MAKE_SEND)
mach_port_insert_right(k, name) ==
    LET e == k.space[name]
    IN  IF name \notin Names \/ ~HasReceive(e)
        THEN [kr |-> "KERN_INVALID_CAPABILITY", k |-> k]
        ELSE [kr |-> "KERN_SUCCESS",
              k |-> [k EXCEPT !.space[name] =
                        [e EXCEPT !.type = "send_recv", !.urefs = e.urefs + 1]]]

(***************************************************************************)
(* rights.rs                                                               *)
(***************************************************************************)
Classes == {"RECEIVE", "SEND", "SEND_ONCE"}

NoRights == [c \in Classes |-> [n \in Names |-> 0]]

\* The result carries the kernel calls made, in order.
FirstOnly(right, first) ==
    [kr |-> first.kr, k |-> first.k, calls |-> <<[right |-> right, kr |-> first.kr]>>]

Retried(right, first, second) ==
    [kr |-> second.kr, k |-> second.k,
     calls |-> <<[right |-> right, kr |-> first.kr],
                 [right |-> "DEAD_NAME", kr |-> second.kr]>>]

\* if result == KERN_INVALID_RIGHT { result = mach_port_mod_refs(.., DEAD_NAME, delta) }
mod_refs_retry(name, right, delta, first) ==
    IF first.kr = "KERN_INVALID_RIGHT"
    THEN Retried(right, first, mach_port_mod_refs(first.k, name, "DEAD_NAME", delta))
    ELSE FirstOnly(right, first)

\* A wrapper that gives up after the first call.
mod_refs_wrapper_no_retry(k, name, right, delta) ==
    FirstOnly(right, mach_port_mod_refs(k, name, right, delta))

mod_refs_wrapper(k, name, right, delta) ==
    mod_refs_retry(name, right, delta, mach_port_mod_refs(k, name, right, delta))

(***************************************************************************)
(* msg/builder.rs and msg/parser.rs: the wire format                       *)
(***************************************************************************)
\* to_ne_bytes / from_ne_bytes of an unsigned integer (little-endian host)
RECURSIVE LE(_, _)
LE(x, n) == IF n = 0 THEN <<>> ELSE <<x % 256>> \o LE(x \div 256, n - 1)

RECURSIVE FromLE(_)
FromLE(bytes) == IF bytes = <<>> THEN 0 ELSE Head(bytes) + 256 * FromLE(Tail(bytes))

\* { name: u32, pad1: u32, pad2: u16, disposition: u8, type: u8 }
mach_msg_port_descriptor_new(name, disposition) ==
    LE(name, 4) \o LE(0, 4) \o LE(0, 2) \o <<disposition, MACH_MSG_PORT_DESCRIPTOR>>

\* { address: u64, deallocate: u8, copy: u8, pad1: u8, type: u8, size: u32 }
mach_msg_ool_descriptor_new(address, deallocate, copy, size) ==
    LE(address, 8) \o <<IF deallocate THEN 1 ELSE 0, copy, 0, MACH_MSG_OOL_DESCRIPTOR>>
        \o LE(size, 4)

DescName(bytes) == FromLE(SubSeq(bytes, 1, 4))
DescDisposition(bytes) == bytes[11]
DescAddress(bytes) == FromLE(SubSeq(bytes, 1, 8))
DescDeallocate(bytes) == bytes[9]
DescSize(bytes) == FromLE(SubSeq(bytes, 13, 16))

DescTypes ==
    {MACH_MSG_PORT_DESCRIPTOR, MACH_MSG_OOL_DESCRIPTOR,
     MACH_MSG_OOL_PORTS_DESCRIPTOR, MACH_MSG_OOL_VOLATILE_DESCRIPTOR}

\* A size dispatch that takes every descriptor for a port descriptor.
size_for_desc_type_port(type_) == PortDescSize

\* defined on DescTypes; any other type is unreachable!()
size_for_desc_type(type_) ==
    CASE type_ = MACH_MSG_PORT_DESCRIPTOR -> PortDescSize
      [] type_ \in {MACH_MSG_OOL_DESCRIPTOR, MACH_MSG_OOL_VOLATILE_DESCRIPTOR} -> OolDescSize
      [] type_ = MACH_MSG_OOL_PORTS_DESCRIPTOR -> OolPortsDescSize

\* Buffer::descriptors_count
descriptors_count(b) ==
    IF complex(b.header.msgh_bits) THEN FromLE(SubSeq(b.body, 1, SIZE_SIZE)) ELSE 0

NoDesc == [ok |-> FALSE, kind |-> 0, bytes |-> <<>>, offset |-> 0]

\* parser::next_desc_impl; ok = FALSE when one of its assertions fails
next_desc_impl(b, offset, received, dbg) ==
    LET cur_offset == offset
        body_size == IF received THEN b.header.msgh_size - HeaderSize ELSE b.len
        space_left == body_size - cur_offset
        type_ == b.body[cur_offset + PortDescSize]
        desc_size == size_for_desc_type(type_)
    IN  IF ~(cur_offset < body_size) THEN NoDesc
        ELSE IF dbg /\ ~(body_size <= b.len) THEN NoDesc
        ELSE IF ~(space_left >= PortDescSize) THEN NoDesc
        ELSE IF b.len - cur_offset < PortDescSize THEN NoDesc
        ELSE IF cur_offset % HeaderAlign # 0 THEN NoDesc
        ELSE IF type_ \notin DescTypes THEN NoDesc
        ELSE IF ~(desc_size <= space_left) \/ b.len - cur_offset < desc_size THEN NoDesc
        ELSE [ok |-> TRUE, kind |-> type_,
              bytes |-> SubSeq(b.body, cur_offset + 1, cur_offset + desc_size),
              offset |-> cur_offset + desc_size]

(***************************************************************************)
(* msg/builder.rs                                                          *)
(***************************************************************************)
NoBuilder == [live |-> FALSE, inline_data_off |-> 0, lent |-> {}]

\* MsgBuilder::new; lent are the wrappers and buffers borrowed for 'a
Builder_new == [live |-> TRUE, inline_data_off |-> 0, lent |-> {}]

\* Wrappers of the class holding the name that the builder has borrowed.
Lent(class, name) == IF <<class, name>> \in builder.lent THEN 1 ELSE 0

BDone(b, off) == [ok |-> TRUE, b |-> b, off |-> off]
BFail(b, off) == [ok |-> FALSE, b |-> b, off |-> off]

\* An inc_desc_count that leaves the count of a complex message as it is.
inc_desc_count_once(b, off, reserve_size, dbg) ==
    LET bits == b.header.msgh_bits
    IN  IF ~FromBitsOk(bits) THEN {BFail(b, off)}
        ELSE IF complex(bits)
        THEN IF b.len < SIZE_SIZE THEN {BFail(b, off)}
             ELSE LET count == FromLE(SubSeq(b.body, 1, SIZE_SIZE))
                      b1 == [b EXCEPT !.body = LE(count, SIZE_SIZE)
                                                  \o SubSeq(b.body, SIZE_SIZE + 1, b.len)]
                  IN  {BDone(r, off) : r \in reserve(b1, reserve_size)}
        ELSE LET b1 == [b EXCEPT !.header.msgh_bits = into_complex(bits)]
             IN  UNION {{IF ~o.ok THEN BFail(o.b, off)
                         ELSE IF dbg /\ off # 0 THEN BFail(o.b, off)
                         ELSE BDone(o.b, SIZE_SIZE) :
                             o \in insert(r, 0, LE(1, SIZE_SIZE), dbg)} :
                        r \in reserve(b1, reserve_size + SIZE_SIZE)}

inc_desc_count(b, off, reserve_size, dbg) ==
    LET bits == b.header.msgh_bits
    IN  IF ~FromBitsOk(bits) THEN {BFail(b, off)}
        ELSE IF complex(bits)
        THEN IF b.len < SIZE_SIZE THEN {BFail(b, off)}
             ELSE LET count == FromLE(SubSeq(b.body, 1, SIZE_SIZE)) + 1
                      b1 == [b EXCEPT !.body = LE(count, SIZE_SIZE)
                                                  \o SubSeq(b.body, SIZE_SIZE + 1, b.len)]
                  IN  {BDone(r, off) : r \in reserve(b1, reserve_size)}
        ELSE LET b1 == [b EXCEPT !.header.msgh_bits = into_complex(bits)]
             IN  UNION {{IF ~o.ok THEN BFail(o.b, off)
                         ELSE IF dbg /\ off # 0 THEN BFail(o.b, off)
                         ELSE BDone(o.b, SIZE_SIZE) :
                             o \in insert(r, 0, LE(1, SIZE_SIZE), dbg)} :
                        r \in reserve(b1, reserve_size + SIZE_SIZE)}

\* An append_descriptor that does not move the inline-data offset on.
append_descriptor_in_place(b, off, bytes, dbg) ==
    UNION {IF ~c.ok THEN {c}
           ELSE {IF o.ok THEN BDone(o.b, c.off) ELSE BFail(o.b, c.off) :
                     o \in insert(c.b, c.off, bytes, dbg)} :
           c \in inc_desc_count(b, off, Len(bytes), dbg)}

append_descriptor(b, off, bytes, dbg) ==
    UNION {IF ~c.ok THEN {c}
           ELSE {IF o.ok THEN BDone(o.b, c.off + Len(bytes)) ELSE BFail(o.b, c.off) :
                     o \in insert(c.b, c.off, bytes, dbg)} :
           c \in inc_desc_count(b, off, Len(bytes), dbg)}

append_port_descriptor(b, off, name, disposition, dbg) ==
    append_descriptor(b, off, mach_msg_port_descriptor_new(name, disposition), dbg)

\* BaseRight::MSG_TYPE
MSG_TYPE(class) ==
    CASE class = "SEND" -> MACH_MSG_TYPE_MOVE_SEND
      [] class = "SEND_ONCE" -> MACH_MSG_TYPE_MOVE_SEND_ONCE
      [] class = "RECEIVE" -> MACH_MSG_TYPE_MOVE_RECEIVE

\* drop(X::from_raw_name(name)) for the wrapper X of the class
ReleaseOutcome(class, name, r) == [k |-> r.k, rel |-> [class |-> class, name |-> name, kr |-> r.kr]]

Release(k, class, name) == ReleaseOutcome(class, name, mod_refs_wrapper(k, name, class, 0 - 1))

HOk(h, k, released) == [ok |-> TRUE, h |-> h, k |-> k, released |-> released]
HFail(h, k, released) == [ok |-> FALSE, h |-> h, k |-> k, released |-> released]

\* The header and kernel after a release r, following the releases so far.
HRel(h, released, r) == HOk(h, r.k, released \o <<r.rel>>)

\* A release_reply_port that clears the slot without releasing the right.
release_reply_port_leak(h, k) ==
    IF ~FromBitsOk(h.msgh_bits) THEN HFail(h, k, <<>>)
    ELSE HOk([h EXCEPT !.msgh_local_port = MACH_PORT_NULL], k, <<>>)

release_reply_port(h, k) ==
    IF ~FromBitsOk(h.msgh_bits) THEN HFail(h, k, <<>>)
    ELSE IF h.msgh_local_port # MACH_PORT_NULL
            /\ local(h.msgh_bits) = MACH_MSG_TYPE_MOVE_SEND
    THEN HRel([h EXCEPT !.msgh_local_port = MACH_PORT_NULL], <<>>,
              Release(k, "SEND", h.msgh_local_port))
    ELSE IF h.msgh_local_port # MACH_PORT_NULL
            /\ local(h.msgh_bits) = MACH_MSG_TYPE_MOVE_SEND_ONCE
    THEN HRel([h EXCEPT !.msgh_local_port = MACH_PORT_NULL], <<>>,
              Release(k, "SEND_ONCE", h.msgh_local_port))
    ELSE HOk([h EXCEPT !.msgh_local_port = MACH_PORT_NULL], k, <<>>)

\* The rest of set_made_reply_port / set_copied_reply_port after the release
\* rr: the slot gets the borrowed name and the disposition.
set_borrowed_reply_port(rr, name, local_bits) ==
    IF ~rr.ok THEN rr
    ELSE HOk([rr.h EXCEPT !.msgh_local_port = name,
                          !.msgh_bits = set_local(rr.h.msgh_bits, local_bits)],
             rr.k, rr.released)

set_made_reply_port(h, k, name, once) ==
    set_borrowed_reply_port(release_reply_port(h, k), name,
        IF once THEN MACH_MSG_TYPE_MAKE_SEND_ONCE ELSE MACH_MSG_TYPE_MAKE_SEND)

set_copied_reply_port(h, k, name) ==
    set_borrowed_reply_port(release_reply_port(h, k), name, MACH_MSG_TYPE_COPY_SEND)

\* The rest of set_moved_reply_port after the release rr.
set_moved_slot(rr, class, name) ==
    IF ~rr.ok THEN rr
    ELSE HOk([rr.h EXCEPT !.msgh_local_port = name,
                          !.msgh_bits = MachMsgBits_new(complex(rr.h.msgh_bits), 0,
                                            MSG_TYPE(class), voucher(rr.h.msgh_bits))],
             rr.k, rr.released)

set_moved_reply_port(h, k, class, name) ==
    set_moved_slot(release_reply_port(h, k), class, name)

\* A drop_header that releases a copied reply port as if it had been moved.
drop_header_local_copied(h, k) ==
    IF h.msgh_local_port = MACH_PORT_NULL THEN HOk(h, k, <<>>)
    ELSE CASE local(h.msgh_bits) = MACH_MSG_TYPE_MOVE_SEND ->
                HRel([h EXCEPT !.msgh_local_port = MACH_PORT_NULL], <<>>,
                     Release(k, "SEND", h.msgh_local_port))
           [] local(h.msgh_bits) = MACH_MSG_TYPE_MOVE_SEND_ONCE ->
                HRel([h EXCEPT !.msgh_local_port = MACH_PORT_NULL], <<>>,
                     Release(k, "SEND_ONCE", h.msgh_local_port))
           [] local(h.msgh_bits) = MACH_MSG_TYPE_COPY_SEND ->
                HRel([h EXCEPT !.msgh_local_port = MACH_PORT_NULL], <<>>,
                     Release(k, "SEND", h.msgh_local_port))
           [] local(h.msgh_bits) \in {MACH_MSG_TYPE_MAKE_SEND, MACH_MSG_TYPE_MAKE_SEND_ONCE} ->
                HOk([h EXCEPT !.msgh_local_port = MACH_PORT_NULL], k, <<>>)
           [] OTHER -> HFail([h EXCEPT !.msgh_local_port = MACH_PORT_NULL], k, <<>>)

\* drop_header: the reply slot
drop_header_local(h, k) ==
    IF h.msgh_local_port = MACH_PORT_NULL THEN HOk(h, k, <<>>)
    ELSE CASE local(h.msgh_bits) = MACH_MSG_TYPE_MOVE_SEND ->
                HRel([h EXCEPT !.msgh_local_port = MACH_PORT_NULL], <<>>,
                     Release(k, "SEND", h.msgh_local_port))
           [] local(h.msgh_bits) = MACH_MSG_TYPE_MOVE_SEND_ONCE ->
                HRel([h EXCEPT !.msgh_local_port = MACH_PORT_NULL], <<>>,
                     Release(k, "SEND_ONCE", h.msgh_local_port))
           [] local(h.msgh_bits) \in {MACH_MSG_TYPE_COPY_SEND, MACH_MSG_TYPE_MAKE_SEND,
                                      MACH_MSG_TYPE_MAKE_SEND_ONCE} ->
                HOk([h EXCEPT !.msgh_local_port = MACH_PORT_NULL], k, <<>>)
           [] OTHER -> HFail([h EXCEPT !.msgh_local_port = MACH_PORT_NULL], k, <<>>)

\* drop_header: the voucher slot, decided by bits.local()
drop_header_voucher(s1) ==
    IF ~s1.ok \/ s1.h.msgh_voucher_port = MACH_PORT_NULL THEN s1
    ELSE CASE local(s1.h.msgh_bits) = MACH_MSG_TYPE_MOVE_SEND ->
                HRel([s1.h EXCEPT !.msgh_voucher_port = MACH_PORT_NULL], s1.released,
                     Release(s1.k, "SEND", s1.h.msgh_voucher_port))
           [] local(s1.h.msgh_bits) = MACH_MSG_TYPE_COPY_SEND ->
                HOk([s1.h EXCEPT !.msgh_voucher_port = MACH_PORT_NULL], s1.k, s1.released)
           [] OTHER ->
                HFail([s1.h EXCEPT !.msgh_voucher_port = MACH_PORT_NULL], s1.k, s1.released)

\* drop_header: the assertions on the remote port and the new bits
drop_header_bits(s2) ==
    IF ~s2.ok THEN s2
    ELSE IF s2.h.msgh_remote_port # MACH_PORT_NULL \/ remote(s2.h.msgh_bits) # 0
    THEN HFail(s2.h, s2.k, s2.released)
    ELSE HOk([s2.h EXCEPT !.msgh_bits = MachMsgBits_new(complex(s2.h.msgh_bits), 0, 0, 0)],
             s2.k, s2.released)

drop_header(h, k) ==
    IF ~FromBitsOk(h.msgh_bits) THEN HFail(h, k, <<>>)
    ELSE drop_header_bits(drop_header_voucher(drop_header_local(h, k)))

\* impl Drop for VmBuf (dealloc_impl): a region of capacity 0 makes no call
VmBuf_drop(k, address, capacity) ==
    IF capacity > 0
    THEN [k |-> mach_vm_deallocate(k, address, capacity), unmapped |-> <<address>>]
    ELSE [k |-> k, unmapped |-> <<>>]

\* The walk so far: the kernel, the rights released and the regions unmapped.
WOk(k, released, unmapped) ==
    [ok |-> TRUE, k |-> k, released |-> released, unmapped |-> unmapped]
WFail(w) == [w EXCEPT !.ok = FALSE]
WRel(w, r) == [w EXCEPT !.k = r.k, !.released = @ \o <<r.rel>>]
WUnmap(w, v) == [w EXCEPT !.k = v.k, !.unmapped = @ \o v.unmapped]

\* A drop loop that releases a copied send right as if it had been moved.
drop_descriptor_copied(w, d) ==
    IF ~d.ok THEN WFail(w)
    ELSE IF d.kind = MACH_MSG_PORT_DESCRIPTOR
    THEN CASE DescDisposition(d.bytes) \in {MACH_MSG_TYPE_MOVE_SEND, MACH_MSG_TYPE_COPY_SEND} ->
                  WRel(w, Release(w.k, "SEND", DescName(d.bytes)))
           [] DescDisposition(d.bytes) = MACH_MSG_TYPE_MOVE_SEND_ONCE ->
                  WRel(w, Release(w.k, "SEND_ONCE", DescName(d.bytes)))
           [] DescDisposition(d.bytes) = MACH_MSG_TYPE_MOVE_RECEIVE ->
                  WRel(w, Release(w.k, "RECEIVE", DescName(d.bytes)))
           [] DescDisposition(d.bytes) \in
                  {MACH_MSG_TYPE_COPY_RECEIVE,
                   MACH_MSG_TYPE_MAKE_SEND, MACH_MSG_TYPE_MAKE_SEND_ONCE} -> w
           [] OTHER -> WFail(w)
    ELSE IF d.kind \in {MACH_MSG_OOL_DESCRIPTOR, MACH_MSG_OOL_VOLATILE_DESCRIPTOR}
    THEN IF DescDeallocate(d.bytes) # 0
         THEN IF DescAddress(d.bytes) = 0 THEN WFail(w)
              ELSE WUnmap(w, VmBuf_drop(w.k, DescAddress(d.bytes), DescSize(d.bytes)))
         ELSE w
    ELSE WFail(w)

\* impl Drop for MsgBuilder: what the loop does with one descriptor
drop_descriptor(w, d) ==
    IF ~d.ok THEN WFail(w)
    ELSE IF d.kind = MACH_MSG_PORT_DESCRIPTOR
    THEN CASE DescDisposition(d.bytes) = MACH_MSG_TYPE_MOVE_SEND ->
                  WRel(w, Release(w.k, "SEND", DescName(d.bytes)))
           [] DescDisposition(d.bytes) = MACH_MSG_TYPE_MOVE_SEND_ONCE ->
                  WRel(w, Release(w.k, "SEND_ONCE", DescName(d.bytes)))
           [] DescDisposition(d.bytes) = MACH_MSG_TYPE_MOVE_RECEIVE ->
                  WRel(w, Release(w.k, "RECEIVE", DescName(d.bytes)))
           [] DescDisposition(d.bytes) \in
                  {MACH_MSG_TYPE_COPY_SEND, MACH_MSG_TYPE_COPY_RECEIVE,
                   MACH_MSG_TYPE_MAKE_SEND, MACH_MSG_TYPE_MAKE_SEND_ONCE} -> w
           [] OTHER -> WFail(w)
    ELSE IF d.kind \in {MACH_MSG_OOL_DESCRIPTOR, MACH_MSG_OOL_VOLATILE_DESCRIPTOR}
    THEN IF DescDeallocate(d.bytes) # 0
         THEN IF DescAddress(d.bytes) = 0 THEN WFail(w)
              ELSE WUnmap(w, VmBuf_drop(w.k, DescAddress(d.bytes), DescSize(d.bytes)))
         ELSE w
    ELSE WFail(w)

\* impl Drop for MsgBuilder: the loop over the descriptors
RECURSIVE drop_descriptors(_, _, _, _, _)
RECURSIVE drop_step(_, _, _, _, _)
drop_next(b, w, count, offset, dbg) ==
    IF ~w.ok THEN w ELSE drop_descriptors(b, w, count, offset, dbg)

drop_step(b, w, count, d, dbg) ==
    drop_next(b, drop_descriptor(w, d), count - 1, d.offset, dbg)

drop_descriptors(b, w, count, offset, dbg) ==
    IF ~(count > 0) THEN w
    ELSE drop_step(b, w, count, next_desc_impl(b, offset, FALSE, dbg), dbg)

\* impl Drop for MsgBuilder
drop_body(b, dh, dbg) ==
    IF ~dh.ok THEN WFail(WOk(dh.k, dh.released, <<>>))
    ELSE drop_descriptors(b, WOk(dh.k, dh.released, <<>>), descriptors_count(b),
                          SIZE_SIZE, dbg)

drop_result(b, w) ==
    [ok |-> w.ok, b |-> b, k |-> w.k, released |-> w.released, unmapped |-> w.unmapped]

drop_with_header(b, dh, dbg) ==
    drop_result([b EXCEPT !.header = dh.h],
                drop_body([b EXCEPT !.header = dh.h], dh, dbg))

MsgBuilder_drop(b, k, dbg) == drop_with_header(b, drop_header(b.header, k), dbg)

\* No MsgParser, DescParser or BodyParser is live.
NoParser == [stage |-> "none", count |-> 0, offset |-> 0]

NoIo ==
    [id |-> 0,                           \* the id given to set_id
     send |-> "none",                    \* what send returned
     sent |-> <<>>,                      \* the header and body handed to the kernel
     size |-> 0,                         \* the send_size handed to the kernel
     carried |-> <<>>,                   \* the rights and regions the kernel took
     recv |-> "none",                    \* what recv returned
     rx |-> <<>>,                        \* what the received message holds, reply first
     header |-> <<>>,                    \* the ParsedMsgHdr returned by parse_header
     steps |-> <<>>,                     \* the parser each parser call returned
     got |-> <<>>,                       \* the ParsedMsgDesc values returned by next
     dropped |-> "none",                 \* the parser that went out of scope
     released |-> <<>>,                  \* the rights a dropped parser released
     unmapped |-> <<>>]                  \* the regions a dropped parser unmapped

\* No OolVec and no OolBuf is live, and nothing was done to one yet.
NoVec ==
    [owner |-> "none",                   \* "vec": an OolVec, "buf": an OolBuf
     ptr |-> DanglingAddress,            \* VmBuf::ptr
     capacity |-> 0,                     \* VmBuf::capacity
     len |-> 0,                          \* OolVec::len
     bytes |-> <<>>,                     \* as_slice()
     op |-> "none",                      \* the last operation
     arg |-> <<>>,                       \* the bytes it was asked to add
     new_len |-> 0,                      \* the length it was asked for
     res |-> "none",                     \* "ok", "err" or "panic"
     required_capacity |-> 0,            \* NotEnoughCapacity of the last "err"
     available_capacity |-> 0,
     old |-> <<>>,                       \* <<len, capacity, bytes>> before it
     region |-> {},                      \* the pages mach_vm_allocate mapped
     calls |-> <<>>,                     \* the mach_vm_deallocate calls since
     nops |-> 0]                         \* operations so far

\* No SendError or RecvError was made yet.
NoErr ==
    [type |-> "none",                    \* "SendError" or "RecvError"
     bits |-> 0,                         \* the mach_msg_return_t of the error
     op |-> "none",                      \* the last operation
     kind |-> 0,                         \* the kind from_kind was given
     flag |-> "none",                    \* the flag the setter is for
     value |-> FALSE,                    \* the value the setter was given
     old |-> 0]                          \* the bits before the setter

NoHistory ==
    [allocs |-> 0,                       \* ports allocated so far
     made |-> [n \in Names |-> 0],       \* make_send calls per name
     clones |-> [n \in Names |-> 0],     \* SendRight::clone calls per name
     drops |-> [n \in Names |-> 0],      \* SendRight drops per name
     incs |-> [n \in Names |-> 0],       \* successful +1 of the kernel per name
     decs |-> [n \in Names |-> 0],       \* successful -1 of the kernel per name
     failed |-> 0,                       \* releases the kernel refused
     last |-> <<>>,                      \* kernel calls of the last drop
     moved |-> [c \in Classes |-> [n \in Names |-> 0]],    \* wrappers moved into the builder
     released |-> [c \in Classes |-> [n \in Names |-> 0]], \* rights the builder released
     relfail |-> 0,                      \* releases of the builder the kernel refused
     consumed |-> {},                    \* regions moved into the builder
     unmaps |-> <<>>,                    \* regions the builder unmapped
     descs |-> <<>>,                     \* descriptors appended, in order
     inline |-> <<>>,                    \* inline bytes appended and inserted
     nops |-> 0,                         \* calls made on the builder
     dropped |-> FALSE]                  \* the builder went out of scope

Succeeded(r) == IF r.kr = "KERN_SUCCESS" THEN 1 ELSE 0

\* References created on the names in use (bounded by MaxRefs).
RECURSIVE SumRefs(_)
SumRefs(n) == IF n = 0 THEN 0 ELSE g.made[n] + g.incs[n] + SumRefs(n - 1)

RefsCreated == SumRefs(NumNames)

\* RecvRight::alloc
RecvRight_alloc(name) ==
    /\ ~panicked
    /\ g.allocs < MaxAllocs
    /\ kernel.space[name].type = "free"
    /\ \A m \in Names : m < name => kernel.space[m].type # "free"
    /\ kernel' = mach_port_allocate(kernel, name)
    /\ held' = [held EXCEPT !["RECEIVE"][name] = @ + 1]
    /\ g' = [g EXCEPT !.allocs = @ + 1,
                      !.made[name] = 0, !.clones[name] = 0, !.drops[name] = 0,
                      !.incs[name] = 0, !.decs[name] = 0]
    /\ UNCHANGED <<ools, builder, buffer, debug_build, panicked>>

\* RecvRight::make_send
RecvRight_make_send(name) ==
    /\ ~panicked
    /\ held["RECEIVE"][name] > 0
    /\ RefsCreated < MaxRefs
    /\ LET r == mach_port_insert_right(kernel, name)
       IN  /\ kernel' = r.k
           /\ IF r.kr = "KERN_SUCCESS"
              THEN held' = [held EXCEPT !["SEND"][name] = @ + 1] /\ UNCHANGED panicked
              ELSE panicked' = TRUE /\ UNCHANGED held
    /\ g' = [g EXCEPT !.made[name] = @ + 1]
    /\ UNCHANGED <<ools, builder, buffer, debug_build>>

\* A clone that copies the name without taking a reference.
SendRight_clone_no_ref(name) ==
    /\ ~panicked
    /\ held["SEND"][name] > 0
    /\ g.clones[name] < MaxRefs
    /\ held' = [held EXCEPT !["SEND"][name] = @ + 1]
    /\ g' = [g EXCEPT !.clones[name] = @ + 1]
    /\ UNCHANGED <<ools, builder, buffer, debug_build, panicked, kernel>>

\* impl Clone for SendRight: clone
SendRight_clone(name) ==
    /\ ~panicked
    /\ held["SEND"][name] > 0
    /\ RefsCreated < MaxRefs
    /\ LET r == mod_refs_wrapper(kernel, name, "SEND", 1)
       IN  /\ kernel' = r.k
           /\ g' = [g EXCEPT !.clones[name] = @ + 1,
                             !.incs[name] = @ + Succeeded(r)]
           /\ IF r.kr = "KERN_SUCCESS"
              THEN held' = [held EXCEPT !["SEND"][name] = @ + 1] /\ UNCHANGED panicked
              ELSE panicked' = TRUE /\ UNCHANGED held
    /\ UNCHANGED <<ools, builder, buffer, debug_build>>

\* impl Clone for SendRight: clone_from
SendRight_clone_from(self, source) ==
    /\ ~panicked
    /\ held["SEND"][self] > 0
    /\ held["SEND"][source] > (IF self = source THEN 1 ELSE 0)
    /\ RefsCreated < MaxRefs
    /\ LET r == mod_refs_wrapper(kernel, self, "SEND", 1)
       IN  /\ kernel' = r.k
           /\ g' = [g EXCEPT !.incs[self] = @ + Succeeded(r)]
           /\ IF r.kr = "KERN_SUCCESS"
              THEN /\ held' = [held EXCEPT !["SEND"] =
                                 [[@ EXCEPT ![self] = @ - 1] EXCEPT ![source] = @ + 1]]
                   /\ UNCHANGED panicked
              ELSE panicked' = TRUE /\ UNCHANGED held
    /\ UNCHANGED <<ools, builder, buffer, debug_build>>

\* A drop that forgets the wrapper without telling the kernel.
Right_drop_forget(class, name) ==
    /\ held[class][name] > Lent(class, name)
    /\ held' = [held EXCEPT ![class][name] = @ - 1]
    /\ g' = [g EXCEPT !.drops[name] = @ + (IF class = "SEND" THEN 1 ELSE 0),
                      !.last = <<>>]
    /\ UNCHANGED <<ools, builder, buffer, debug_build, panicked, kernel>>

\* impl Drop for SendRight / SendOnceRight / RecvRight: the result of the
\* decrement is not looked at.
Right_drop(class, name) ==
    /\ held[class][name] > Lent(class, name)
    /\ LET r == mod_refs_wrapper(kernel, name, class, 0 - 1)
       IN  /\ kernel' = r.k
           /\ g' = [g EXCEPT !.drops[name] = @ + (IF class = "SEND" THEN 1 ELSE 0),
                             !.decs[name] = @ + (IF class = "SEND" THEN Succeeded(r) ELSE 0),
                             !.failed = @ + (1 - Succeeded(r)),
                             !.last = r.calls]
    /\ held' = [held EXCEPT ![class][name] = @ - 1]
    /\ UNCHANGED <<ools, builder, buffer, debug_build, panicked>>

(***************************************************************************)
(* The right wrappers on their own.  SpecClone leaves clone_from out.      *)
(***************************************************************************)
InitRights ==
    /\ buffer = with_capacity(0)
    /\ debug_build \in BOOLEAN
    /\ panicked = FALSE
    /\ kernel = EmptyKernel
    /\ held = NoRights
    /\ ools = {}
    /\ builder = NoBuilder
    /\ g = NoHistory
    /\ queue = <<>>
    /\ memory = {}
    /\ parser = NoParser
    /\ io = NoIo
    /\ vec = NoVec
    /\ err = NoErr

NextClone ==
    \/ \E n \in Names : RecvRight_alloc(n) /\ UNCHANGED ipcvars
    \/ \E n \in Names : RecvRight_make_send(n) /\ UNCHANGED ipcvars
    \/ \E n \in Names : SendRight_clone(n) /\ UNCHANGED ipcvars
    \/ \E n \in Names : Right_drop("SEND", n) /\ UNCHANGED ipcvars
    \/ \E n \in Names : Right_drop("RECEIVE", n) /\ UNCHANGED ipcvars

NextRights ==
    \/ NextClone
    \/ \E a, b \in Names : SendRight_clone_from(a, b) /\ UNCHANGED ipcvars

SpecClone == InitRights /\ [][NextClone]_vars

SpecRights == InitRights /\ [][NextRights]_vars

(***************************************************************************)
(* Inputs: byte slices handed to append and insert.                        *)
(***************************************************************************)
Ramp(start, n) == [i \in 1..n |-> (start + i - 1) % 256]
Chunks == {Ramp(s, n) : s \in 1..NumBytes, n \in 0..MaxChunk}

(***************************************************************************)
(* The Buffer on its own: with_capacity, then reserve, append and insert.  *)
(***************************************************************************)
InitBuf ==
    /\ \E c \in 0..MaxCap : buffer = with_capacity(c)
    /\ debug_build \in BOOLEAN
    /\ panicked = FALSE
    /\ kernel = EmptyKernel
    /\ held = NoRights
    /\ ools = {}
    /\ builder = NoBuilder
    /\ g = NoHistory
    /\ queue = <<>>
    /\ memory = {}
    /\ parser = NoParser
    /\ io = NoIo
    /\ vec = NoVec
    /\ err = NoErr

BufReserve(additional) ==
    /\ ~panicked
    /\ buffer.capacity + additional <= MaxLen
    /\ buffer' \in reserve(buffer, additional)
    /\ UNCHANGED <<ools, builder, debug_build, panicked, kernel, held, g>>

BufAppend(bytes) ==
    /\ ~panicked
    /\ buffer.len + Len(bytes) <= MaxLen
    /\ \E o \in append(buffer, bytes, debug_build) :
          /\ buffer' = o.b
          /\ panicked' = ~o.ok
    /\ UNCHANGED <<ools, builder, debug_build, kernel, held, g>>

BufInsert(at, bytes) ==
    /\ ~panicked
    /\ buffer.len + Len(bytes) <= MaxLen
    /\ \E o \in insert(buffer, at, bytes, debug_build) :
          /\ buffer' = o.b
          /\ panicked' = ~o.ok
    /\ UNCHANGED <<ools, builder, debug_build, kernel, held, g>>

NextBuf ==
    \/ \E a \in 0..MaxChunk : BufReserve(a) /\ UNCHANGED ipcvars
    \/ \E bytes \in Chunks : BufAppend(bytes) /\ UNCHANGED ipcvars
    \/ \E bytes \in Chunks : \E at \in 0..(buffer.len + 1) :
          BufInsert(at, bytes) /\ UNCHANGED ipcvars

SpecBuf == InitBuf /\ [][NextBuf]_vars

(***************************************************************************)
(* The builder: one buffer, one MsgBuilder over it, the wrappers and the   *)
(* out-of-line buffers of the caller.                                      *)
(***************************************************************************)
RECURSIVE Flatten(_)
Flatten(ss) == IF ss = <<>> THEN <<>> ELSE Head(ss) \o Flatten(Tail(ss))

RECURSIVE Logged(_, _)
Logged(gg, released) ==
    IF released = <<>> THEN gg
    ELSE LET r == Head(released)
         IN  Logged(IF r.kr = "KERN_SUCCESS" /\ r.name \in Names
                    THEN [gg EXCEPT !.released[r.class][r.name] = @ + 1]
                    ELSE [gg EXCEPT !.relfail = @ + 1],
                    Tail(released))

InlineChunks == {Ramp(1, 1), Ramp(1, 2 * BigCap)}

OolRegion == [address |-> VmAddress(1), size |-> 2 * MaxChunk]

\* the bytes the caller has put into the region
OolBytes == Ramp(7, OolRegion.size)

\* let recv = RecvRight::alloc(); let send = recv.make_send(); a send-once right to the port under a second
\* name; an OolBuf of one region; a fresh buffer and
\* MsgBuilder::new over it.
InitBuilder ==
    /\ buffer = with_capacity(BigCap)
    /\ debug_build \in BOOLEAN
    /\ panicked = FALSE
    /\ kernel = [space |-> [n \in Names |->
                     IF n = 1 THEN [type |-> "send_recv", urefs |-> 1, port |-> 1]
                     ELSE IF n = 2 THEN [type |-> "send_once", urefs |-> 1, port |-> 1]
                     ELSE FreeEntry],
                 ports |-> {1},
                 vm |-> {OolRegion.address}]
    /\ held = [NoRights EXCEPT !["RECEIVE"][1] = 1, !["SEND"][1] = 1, !["SEND_ONCE"][2] = 1]
    /\ ools = {OolRegion}
    /\ builder = Builder_new
    /\ g = [NoHistory EXCEPT !.allocs = 1, !.made[1] = 1]
    /\ queue = <<>>
    /\ memory = {[address |-> OolRegion.address, bytes |-> OolBytes]}
    /\ parser = NoParser
    /\ io = NoIo
    /\ vec = NoVec
    /\ err = NoErr

\* The header part shared by the set_*_reply_port actions.
SetReply(r, borrowed) ==
    /\ buffer' = [buffer EXCEPT !.header = r.h]
    /\ kernel' = r.k
    /\ panicked' = ~r.ok
    /\ builder' = [builder EXCEPT !.lent = @ \cup borrowed]
    /\ UNCHANGED <<debug_build, ools>>

Builder_set_made_reply_port(name, once) ==
    /\ ~panicked /\ builder.live
    /\ g.nops < MaxOps
    /\ held["RECEIVE"][name] > 0
    /\ LET r == set_made_reply_port(buffer.header, kernel, name, once)
       IN  /\ SetReply(r, {<<"RECEIVE", name>>})
           /\ g' = Logged([g EXCEPT !.nops = @ + 1], r.released)
    /\ UNCHANGED held

Builder_set_copied_reply_port(name) ==
    /\ ~panicked /\ builder.live
    /\ g.nops < MaxOps
    /\ held["SEND"][name] > 0
    /\ LET r == set_copied_reply_port(buffer.header, kernel, name)
       IN  /\ SetReply(r, {<<"SEND", name>>})
           /\ g' = Logged([g EXCEPT !.nops = @ + 1], r.released)
    /\ UNCHANGED held

Builder_set_moved_reply_port(class, name) ==
    /\ ~panicked /\ builder.live
    /\ g.nops < MaxOps
    /\ held[class][name] > Lent(class, name)
    /\ LET r == set_moved_reply_port(buffer.header, kernel, class, name)
       IN  /\ SetReply(r, {})
           /\ IF r.ok
              THEN /\ held' = [held EXCEPT ![class][name] = @ - 1]
                   /\ g' = Logged([g EXCEPT !.nops = @ + 1,
                                            !.moved[class][name] = @ + 1], r.released)
              ELSE /\ UNCHANGED held
                   /\ g' = Logged([g EXCEPT !.nops = @ + 1],
                                  r.released)

\* The buffer part shared by the append_* descriptor actions.
AppendDesc(bytes, borrowed, gg) ==
    \E o \in append_descriptor(buffer, builder.inline_data_off, bytes, debug_build) :
        /\ buffer' = o.b
        /\ panicked' = ~o.ok
        /\ builder' = [builder EXCEPT !.inline_data_off = o.off, !.lent = @ \cup borrowed]
        /\ g' = [gg EXCEPT !.nops = @ + 1,
                           !.descs = IF o.ok THEN Append(@, bytes) ELSE @]
        /\ UNCHANGED <<debug_build, kernel>>

Builder_append_made_send_right(name, once) ==
    /\ ~panicked /\ builder.live
    /\ g.nops < MaxOps
    /\ held["RECEIVE"][name] > 0
    /\ AppendDesc(mach_msg_port_descriptor_new(name,
                      IF once THEN MACH_MSG_TYPE_MAKE_SEND_ONCE ELSE MACH_MSG_TYPE_MAKE_SEND),
                  {<<"RECEIVE", name>>}, g)
    /\ UNCHANGED <<held, ools>>

Builder_append_copied_send_right(name) ==
    /\ ~panicked /\ builder.live
    /\ g.nops < MaxOps
    /\ held["SEND"][name] > 0
    /\ AppendDesc(mach_msg_port_descriptor_new(name, MACH_MSG_TYPE_COPY_SEND),
                  {<<"SEND", name>>}, g)
    /\ UNCHANGED <<held, ools>>

Builder_append_moved_right(class, name) ==
    /\ ~panicked /\ builder.live
    /\ g.nops < MaxOps
    /\ held[class][name] > Lent(class, name)
    /\ held' = [held EXCEPT ![class][name] = @ - 1]
    /\ AppendDesc(mach_msg_port_descriptor_new(name, MSG_TYPE(class)), {},
                  [g EXCEPT !.moved[class][name] = @ + 1])
    /\ UNCHANGED ools

Builder_append_ool_data(data, copy_kind) ==
    /\ ~panicked /\ builder.live
    /\ g.nops < MaxOps
    /\ data \in ools
    /\ AppendDesc(mach_msg_ool_descriptor_new(data.address, FALSE, copy_kind, data.size),
                  {<<"OOL", data.address>>}, g)
    /\ UNCHANGED <<held, ools>>

Builder_append_consumed_ool_data(data, copy_kind) ==
    /\ ~panicked /\ builder.live
    /\ g.nops < MaxOps
    /\ data \in ools
    /\ <<"OOL", data.address>> \notin builder.lent
    /\ ools' = ools \ {data}
    /\ AppendDesc(mach_msg_ool_descriptor_new(data.address, TRUE, copy_kind, data.size),
                  {}, [g EXCEPT !.consumed = @ \cup {data}])
    /\ UNCHANGED held

Builder_append_inline_data(data) ==
    /\ ~panicked /\ builder.live
    /\ g.nops < MaxOps
    /\ \E o \in append(buffer, data, debug_build) :
          /\ buffer' = o.b
          /\ panicked' = ~o.ok
          /\ g' = [g EXCEPT !.nops = @ + 1,
                            !.inline = IF o.ok THEN @ \o data ELSE @]
    /\ UNCHANGED <<debug_build, kernel, held, ools, builder>>

Builder_insert_inline_data(at, data) ==
    /\ ~panicked /\ builder.live
    /\ g.nops < MaxOps
    /\ \E o \in insert(buffer, builder.inline_data_off + at, data, debug_build) :
          /\ buffer' = o.b
          /\ panicked' = ~o.ok
          /\ g' = [g EXCEPT !.nops = @ + 1,
                            !.inline = IF o.ok
                                       THEN SubSeq(@, 1, at) \o data \o SubSeq(@, at + 1, Len(@))
                                       ELSE @]
    /\ UNCHANGED <<debug_build, kernel, held, ools, builder>>

\* The builder goes out of scope, also while a panic unwinds.
Builder_drop ==
    /\ builder.live
    /\ LET r == MsgBuilder_drop(buffer, kernel, debug_build)
       IN  /\ buffer' = r.b
           /\ kernel' = r.k
           /\ panicked' = (panicked \/ ~r.ok)
           /\ g' = Logged([g EXCEPT !.dropped = TRUE,
                                    !.unmaps = @ \o r.unmapped], r.released)
    /\ builder' = NoBuilder
    /\ UNCHANGED <<debug_build, held, ools>>

CopyKinds == {MACH_MSG_PHYSICAL_COPY, MACH_MSG_VIRTUAL_COPY}

\* the start, the middle and one past the end of the inline data
InsertOffsets == {0, Len(g.inline) \div 2, Len(g.inline) + 1}

\* A call on the builder.
BuilderSteps(kinds) ==
    \/ \E n \in Names : \E once \in BOOLEAN : Builder_set_made_reply_port(n, once)
    \/ \E n \in Names : Builder_set_copied_reply_port(n)
    \/ \E c \in {"SEND", "SEND_ONCE"} : \E n \in Names : Builder_set_moved_reply_port(c, n)
    \/ \E n \in Names : \E once \in BOOLEAN : Builder_append_made_send_right(n, once)
    \/ \E n \in Names : Builder_append_copied_send_right(n)
    \/ \E c \in Classes : \E n \in Names : Builder_append_moved_right(c, n)
    \/ \E d \in ools : \E ck \in kinds : Builder_append_ool_data(d, ck)
    \/ \E d \in ools : \E ck \in kinds : Builder_append_consumed_ool_data(d, ck)

BuilderStep == BuilderSteps(CopyKinds)

NextBuilder ==
    \/ BuilderStep /\ UNCHANGED ipcvars
    \/ \E d \in InlineChunks : Builder_append_inline_data(d) /\ UNCHANGED ipcvars
    \/ \E d \in InlineChunks : \E at \in InsertOffsets :
          Builder_insert_inline_data(at, d) /\ UNCHANGED ipcvars
    \/ Builder_drop /\ UNCHANGED ipcvars
    \/ \E n \in Names : Right_drop("RECEIVE", n) /\ UNCHANGED ipcvars

SpecBuilder == InitBuilder /\ [][NextBuilder]_vars

(***************************************************************************)
(* The kernel side of send and recv: mach_msg.  A queued message holds the *)
(* rights and the out-of-line bytes the kernel took from the sender.       *)
(***************************************************************************)
RcvLimit == 4096

NoRight == [port |-> 0, type |-> "NONE"]

KOk(k, right) == [ok |-> TRUE, k |-> k, right |-> right]
KFail(k) == [ok |-> FALSE, k |-> k, right |-> NoRight]

RightOf(k, name, type) == [port |-> k.space[name].port, type |-> type]

\* The receive right leaves the name; send references on the name stay.
TakeReceive(k, name) ==
    [k EXCEPT !.space[name] =
        IF @.type = "send_recv" THEN [@ EXCEPT !.type = "send"] ELSE FreeEntry]

\* The kernel takes the right a name and a disposition of a sent message
\* stand for.
copyin_right(k, name, disposition) ==
    IF name \notin Names THEN KFail(k)
    ELSE CASE disposition = MACH_MSG_TYPE_MAKE_SEND /\ HasReceive(k.space[name]) ->
                  KOk(k, RightOf(k, name, "SEND"))
           [] disposition = MACH_MSG_TYPE_MAKE_SEND_ONCE /\ HasReceive(k.space[name]) ->
                  KOk(k, RightOf(k, name, "SEND_ONCE"))
           [] disposition = MACH_MSG_TYPE_COPY_SEND /\ HasSend(k.space[name]) ->
                  KOk(k, RightOf(k, name, "SEND"))
           [] disposition = MACH_MSG_TYPE_MOVE_SEND /\ HasSend(k.space[name]) ->
                  KOk(mach_port_mod_refs(k, name, "SEND", 0 - 1).k, RightOf(k, name, "SEND"))
           [] disposition = MACH_MSG_TYPE_MOVE_SEND_ONCE
                  /\ k.space[name].type = "send_once" ->
                  KOk(mach_port_mod_refs(k, name, "SEND_ONCE", 0 - 1).k,
                      RightOf(k, name, "SEND_ONCE"))
           [] disposition = MACH_MSG_TYPE_MOVE_RECEIVE /\ HasReceive(k.space[name]) ->
                  KOk(TakeReceive(k, name), RightOf(k, name, "RECEIVE"))
           [] OTHER -> KFail(k)

\* The bytes of the region mapped at the address.
RegionBytes(mem, address) == (CHOOSE r \in mem : r.address = address).bytes

Mapped(k, mem, address, size) ==
    /\ address \in k.vm
    /\ \E r \in mem : r.address = address /\ Len(r.bytes) >= size

PortItem(right) ==
    [kind |-> "port", right |-> right, bytes |-> <<>>, copy |-> 0]
OolItem(bytes, copy) ==
    [kind |-> "ool", right |-> NoRight, bytes |-> bytes, copy |-> copy]

\* The walk over the descriptors of a sent body: the space and the items
\* taken so far.
COk(k, items) == [ok |-> TRUE, kr |-> "MACH_MSG_SUCCESS", k |-> k, items |-> items]
CFail(w, kr) == [w EXCEPT !.ok = FALSE, !.kr = kr]
CPort(w, r) ==
    IF r.ok THEN [w EXCEPT !.k = r.k, !.items = Append(@, PortItem(r.right))]
    ELSE CFail(w, "MACH_SEND_INVALID_RIGHT")
COol(w, mem, bytes) ==
    IF DescSize(bytes) = 0
    THEN [w EXCEPT !.items = Append(@, OolItem(<<>>, bytes[10]))]
    ELSE IF ~Mapped(w.k, mem, DescAddress(bytes), DescSize(bytes))
    THEN CFail(w, "MACH_SEND_INVALID_MEMORY")
    ELSE [w EXCEPT
            !.k = IF DescDeallocate(bytes) # 0
                  THEN mach_vm_deallocate(@, DescAddress(bytes), DescSize(bytes))
                  ELSE @,
            !.items = Append(@, OolItem(SubSeq(RegionBytes(mem, DescAddress(bytes)),
                                               1, DescSize(bytes)),
                                        bytes[10]))]

copyin_descriptor(w, mem, d) ==
    IF ~d.ok THEN CFail(w, "MACH_SEND_INVALID_TYPE")
    ELSE IF d.kind = MACH_MSG_PORT_DESCRIPTOR
    THEN CPort(w, copyin_right(w.k, DescName(d.bytes), DescDisposition(d.bytes)))
    ELSE IF d.kind = MACH_MSG_OOL_DESCRIPTOR
    THEN COol(w, mem, d.bytes)
    ELSE CFail(w, "MACH_SEND_INVALID_TYPE")

RECURSIVE copyin_body(_, _, _, _, _)
RECURSIVE copyin_step(_, _, _, _, _)
copyin_next(b, mem, w, count, offset) ==
    IF ~w.ok THEN [w |-> w, offset |-> offset]
    ELSE copyin_body(b, mem, w, count, offset)

copyin_step(b, mem, w, count, d) ==
    copyin_next(b, mem, copyin_descriptor(w, mem, d), count - 1, d.offset)

copyin_body(b, mem, w, count, offset) ==
    IF ~(count > 0) THEN [w |-> w, offset |-> offset]
    ELSE copyin_step(b, mem, w, count, next_desc_impl(b, offset, FALSE, FALSE))

\* The send half of mach_msg, in the kernel's order: the size, the
\* destination, the reply port, the descriptors.  A message that is refused
\* leaves the space and the memory of the sender as they were.
SendRefused(k, kr) == [kr |-> kr, k |-> k, msg |-> <<>>]

SendQueued(b, dest, reply, body) ==
    [kr |-> "MACH_MSG_SUCCESS", k |-> body.w.k,
     msg |-> <<[dest |-> dest.right, id |-> b.header.msgh_id, reply |-> reply.right,
                complex |-> complex(b.header.msgh_bits), items |-> body.w.items,
                inline |-> SubSeq(b.body, body.offset + 1, b.len)]>>]

send_body(k, b, dest, reply, body) ==
    IF ~body.w.ok THEN SendRefused(k, body.w.kr)
    ELSE SendQueued(b, dest, reply, body)

send_descriptors(k, mem, b, dest, reply) ==
    IF ~reply.ok THEN SendRefused(k, "MACH_SEND_INVALID_REPLY")
    ELSE IF ~complex(b.header.msgh_bits)
    THEN send_body(k, b, dest, reply, [w |-> COk(reply.k, <<>>), offset |-> 0])
    ELSE IF b.len < SIZE_SIZE \/ \E i \in 1..SIZE_SIZE : b.body[i] \notin 0..255
    THEN SendRefused(k, "MACH_SEND_MSG_TOO_SMALL")
    ELSE send_body(k, b, dest, reply,
                   copyin_body(b, mem, COk(reply.k, <<>>), descriptors_count(b), SIZE_SIZE))

send_reply(k, mem, b, dest) ==
    IF ~dest.ok THEN SendRefused(k, "MACH_SEND_INVALID_DEST")
    ELSE send_descriptors(k, mem, b, dest,
             IF b.header.msgh_local_port = MACH_PORT_NULL THEN KOk(dest.k, NoRight)
             ELSE copyin_right(dest.k, b.header.msgh_local_port,
                               local(b.header.msgh_bits)))

\* mach_msg(data, MACH_SEND_MSG, data.len(), ..)
mach_msg_send(k, mem, b) ==
    IF b.len % HeaderAlign # 0 THEN SendRefused(k, "MACH_SEND_MSG_TOO_SMALL")
    ELSE send_reply(k, mem, b,
                    copyin_right(k, b.header.msgh_remote_port, remote(b.header.msgh_bits)))

\* The names under which the task already holds the port.
NamesOf(k, port) ==
    {n \in Names : k.space[n].port = port /\ k.space[n].type \in {"send", "send_recv", "recv"}}

FreeNames(k) == {n \in Names : k.space[n].type = "free"}

Lowest(S) == CHOOSE n \in S : \A m \in S : n <= m

NOk(k, name) == [ok |-> TRUE, k |-> k, name |-> name]
NFail(k) == [ok |-> FALSE, k |-> k, name |-> MACH_PORT_NULL]

NewName(k, name, type, urefs, port) ==
    NOk([k EXCEPT !.space[name] = [type |-> type, urefs |-> urefs, port |-> port]], name)

\* The right joins the name the task already has for the port.
JoinSend(k, name) ==
    NOk([k EXCEPT !.space[name] =
            [@ EXCEPT !.type = IF @ = "recv" THEN "send_recv" ELSE @,
                      !.urefs = @ + 1]], name)
JoinReceive(k, name) == NOk([k EXCEPT !.space[name].type = "send_recv"], name)

\* The kernel gives a received right a name in the space of the receiver: a
\* send or receive right joins the name the task has for the port, a
\* send-once right always gets a name of its own.
copyout_right(k, right) ==
    IF right.type \in {"SEND", "RECEIVE"} /\ NamesOf(k, right.port) # {}
    THEN IF right.type = "SEND" THEN JoinSend(k, Lowest(NamesOf(k, right.port)))
         ELSE JoinReceive(k, Lowest(NamesOf(k, right.port)))
    ELSE IF FreeNames(k) = {} THEN NFail(k)
    ELSE CASE right.type = "SEND" -> NewName(k, Lowest(FreeNames(k)), "send", 1, right.port)
           [] right.type = "SEND_ONCE" ->
                  NewName(k, Lowest(FreeNames(k)), "send_once", 1, right.port)
           [] right.type = "RECEIVE" ->
                  NewName(k, Lowest(FreeNames(k)), "recv", 0, right.port)

\* What a received message holds for the receiver.
RxRight(slot, class, name) ==
    [slot |-> slot, kind |-> "port", class |-> class, name |-> name, address |-> 0, size |-> 0]
RxOol(address, size) ==
    [slot |-> "desc", kind |-> "ool", class |-> "OOL", name |-> 0, address |-> address,
     size |-> size]

\* The walk over the items of a queued message: the space, the memory, the
\* descriptor bytes written and what the receiver holds so far.
OOk(k, mem, bytes, rx) == [ok |-> TRUE, k |-> k, mem |-> mem, bytes |-> bytes, rx |-> rx]
OFail(w) == [w EXCEPT !.ok = FALSE]
OPort(w, type, n) ==
    IF ~n.ok THEN OFail(w)
    ELSE [w EXCEPT !.k = n.k,
                   !.bytes = @ \o mach_msg_port_descriptor_new(n.name, MSG_TYPE(type)),
                   !.rx = Append(@, RxRight("desc", type, n.name))]
OOol(w, item, address) ==
    IF item.bytes = <<>>
    THEN [w EXCEPT !.bytes = @ \o mach_msg_ool_descriptor_new(0, FALSE, item.copy, 0),
                   !.rx = Append(@, RxOol(0, 0))]
    ELSE
    [w EXCEPT !.k = [@ EXCEPT !.vm = @ \cup {address}],
              !.mem = @ \cup {[address |-> address, bytes |-> item.bytes]},
              !.bytes = @ \o mach_msg_ool_descriptor_new(address, FALSE, item.copy,
                                                         Len(item.bytes)),
              !.rx = Append(@, RxOol(address, Len(item.bytes)))]

copyout_item(w, item) ==
    IF item.kind = "port" THEN OPort(w, item.right.type, copyout_right(w.k, item.right))
    ELSE OOol(w, item, VmAddress(Cardinality(w.mem) + 1))

RECURSIVE copyout_body(_, _)
copyout_rest(w, items) == IF ~w.ok THEN w ELSE copyout_body(w, items)
copyout_body(w, items) ==
    IF items = <<>> THEN w ELSE copyout_rest(copyout_item(w, Head(items)), Tail(items))

\* The header the receiver sees: the reply port in the remote slot, the port
\* the message arrived on in the local slot.
received_header(m, name, reply, size) ==
    [msgh_bits |-> MachMsgBits_new(m.complex,
                       IF m.reply = NoRight THEN 0 ELSE MSG_TYPE(m.reply.type),
                       MSG_TYPE(m.dest.type), 0),
     msgh_size |-> size,
     msgh_remote_port |-> reply.name,
     msgh_local_port |-> name,
     msgh_voucher_port |-> MACH_PORT_NULL,
     msgh_id |-> m.id]

received_body(m, w) ==
    (IF m.complex THEN LE(Len(m.items), SIZE_SIZE) ELSE <<>>) \o w.bytes \o m.inline

Received(m, name, reply, w) ==
    [ok |-> w.ok, k |-> w.k, mem |-> w.mem,
     header |-> received_header(m, name, reply, HeaderSize + Len(received_body(m, w))),
     body |-> received_body(m, w), rx |-> w.rx]

receive_body(m, name, mem, reply) ==
    Received(m, name, reply,
             IF ~reply.ok THEN OFail(OOk(reply.k, mem, <<>>, <<>>))
             ELSE copyout_body(OOk(reply.k, mem, <<>>,
                                   IF m.reply = NoRight THEN <<>>
                                   ELSE <<RxRight("reply", m.reply.type, reply.name)>>),
                               m.items))

\* The receive half of mach_msg for the message m that arrived on the port of
\* the name; ok = FALSE when the model has no name left to give.
mach_msg_receive(k, mem, m, name) ==
    receive_body(m, name, mem,
                 IF m.reply = NoRight THEN NOk(k, MACH_PORT_NULL)
                 ELSE copyout_right(k, m.reply))

(***************************************************************************)
(* rights.rs: send and recv; msg/parser.rs: the parsers                    *)
(***************************************************************************)
\* Buffer::as_slice, which MsgBuilder::as_slice returns: the header and the
\* body, as bytes of which the model keeps the header in its fields.
as_slice(b) == [i \in 1..(Len(b.body) + HeaderSize) |->
                   IF i <= HeaderSize THEN 0 ELSE b.body[i - HeaderSize]]

\* A send that writes fresh bits for the destination.
set_raw_remote_port_fresh(h, name, bits) ==
    [h EXCEPT !.msgh_remote_port = name,
              !.msgh_bits = MachMsgBits_new(FALSE, bits, 0, 0)]

\* MsgBuilder::set_raw_remote_port
set_raw_remote_port(h, name, bits) ==
    [h EXCEPT !.msgh_remote_port = name, !.msgh_bits = set_remote(h.msgh_bits, bits)]

\* send_impl: the builder is wrapped in ManuallyDrop, so its drop never runs,
\* whatever mach_msg returns.
send_impl(k, mem, b, name, bits) ==
    IF ~FromBitsOk(b.header.msgh_bits)
    THEN [ok |-> FALSE, b |-> b, kr |-> "none", k |-> k, msg |-> <<>>]
    ELSE [ok |-> TRUE,
          b |-> [b EXCEPT !.header = set_raw_remote_port(b.header, name, bits)]]
         @@ mach_msg_send(k, mem, [b EXCEPT !.header =
                                      set_raw_remote_port(b.header, name, bits)])

\* Buffer::set_len, called by MsgParser::new with the msgh_size of the header
set_len(b, new_len) ==
    IF ~(new_len <= b.capacity) THEN Fail(b) ELSE Done([b EXCEPT !.len = new_len])

\* The body as the Buffer shows it once the kernel has written the message
\* to the start of the block: len bytes from the end of the header, of which
\* the message has written the first ones.
Shown(bytes, len) ==
    [i \in 1..len |-> IF i <= Len(bytes) THEN bytes[i] ELSE Junk]

\* MsgParser::new over the buffer the kernel has written r to
MsgParser_new(b, r) ==
    LET o == set_len([b EXCEPT !.header = r.header], r.header.msgh_size)
    IN  IF o.ok THEN Done([o.b EXCEPT !.body = Shown(r.body, o.b.len)])
        ELSE Fail([o.b EXCEPT !.body = Shown(r.body, o.b.len)])

ReplyClass(disposition) ==
    IF disposition = MACH_MSG_TYPE_MOVE_SEND THEN "SEND" ELSE "SEND_ONCE"

DescStage(count, offset) == [stage |-> "desc", count |-> count, offset |-> offset]
BodyStage(offset) == [stage |-> "body", count |-> 0, offset |-> offset]

\* parse_header_impl: the header slots read, then the first parser
first_parser(count) == IF count > 0 THEN DescStage(count, SIZE_SIZE) ELSE BodyStage(0)

PHFail == [ok |-> FALSE, id |-> 0, reply |-> <<>>, voucher |-> <<>>, parser |-> NoParser]

\* A parse_header_impl that reads the reply disposition from the local field.
parse_header_impl_local(b) ==
    IF b.header.msgh_voucher_port # MACH_PORT_NULL
       /\ voucher(b.header.msgh_bits) \notin {MACH_MSG_TYPE_COPY_SEND, MACH_MSG_TYPE_MOVE_SEND}
    THEN PHFail
    ELSE IF b.header.msgh_remote_port # MACH_PORT_NULL
            /\ local(b.header.msgh_bits) \notin
                   {MACH_MSG_TYPE_MOVE_SEND, MACH_MSG_TYPE_MOVE_SEND_ONCE}
    THEN PHFail
    ELSE IF complex(b.header.msgh_bits) /\ b.len < SIZE_SIZE THEN PHFail
    ELSE [ok |-> TRUE,
          id |-> b.header.msgh_id,
          reply |-> IF b.header.msgh_remote_port = MACH_PORT_NULL THEN <<>>
                    ELSE <<[class |-> ReplyClass(local(b.header.msgh_bits)),
                            name |-> b.header.msgh_remote_port]>>,
          voucher |-> IF b.header.msgh_voucher_port = MACH_PORT_NULL THEN <<>>
                      ELSE <<[class |-> "SEND", name |-> b.header.msgh_voucher_port]>>,
          parser |-> first_parser(descriptors_count(b))]

parse_header_impl(b) ==
    IF b.header.msgh_voucher_port # MACH_PORT_NULL
       /\ voucher(b.header.msgh_bits) \notin {MACH_MSG_TYPE_COPY_SEND, MACH_MSG_TYPE_MOVE_SEND}
    THEN PHFail
    ELSE IF b.header.msgh_remote_port # MACH_PORT_NULL
            /\ remote(b.header.msgh_bits) \notin
                   {MACH_MSG_TYPE_MOVE_SEND, MACH_MSG_TYPE_MOVE_SEND_ONCE}
    THEN PHFail
    ELSE IF complex(b.header.msgh_bits) /\ b.len < SIZE_SIZE THEN PHFail
    ELSE [ok |-> TRUE,
          id |-> b.header.msgh_id,
          reply |-> IF b.header.msgh_remote_port = MACH_PORT_NULL THEN <<>>
                    ELSE <<[class |-> ReplyClass(remote(b.header.msgh_bits)),
                            name |-> b.header.msgh_remote_port]>>,
          voucher |-> IF b.header.msgh_voucher_port = MACH_PORT_NULL THEN <<>>
                      ELSE <<[class |-> "SEND", name |-> b.header.msgh_voucher_port]>>,
          parser |-> first_parser(descriptors_count(b))]

\* ParsedMsgDesc
PortRecv(name) == [kind |-> "PortRecv", class |-> "RECEIVE", name |-> name, address |-> 0, size |-> 0]
PortSend(name) == [kind |-> "PortSend", class |-> "SEND", name |-> name, address |-> 0, size |-> 0]
PortSendOnce(name) ==
    [kind |-> "PortSendOnce", class |-> "SEND_ONCE", name |-> name, address |-> 0, size |-> 0]
OolData(address, size) ==
    [kind |-> "OolData", class |-> "OOL", name |-> 0, address |-> address, size |-> size]

NoParsed == [ok |-> FALSE, desc |-> <<>>]
Parsed(desc) == [ok |-> TRUE, desc |-> <<desc>>]

\* An OolBuf that is one byte short of the region.
parsed_ool_short(bytes) ==
    IF DescSize(bytes) = 0 THEN Parsed(OolData(DanglingAddress, 0))
    ELSE IF DescAddress(bytes) = 0 THEN NoParsed
    ELSE Parsed(OolData(DescAddress(bytes), DescSize(bytes) - 1))

\* DescParser::next, the out-of-line arm: OolBuf::from_raw_parts(ptr, length)
parsed_ool(bytes) ==
    IF DescSize(bytes) = 0 THEN Parsed(OolData(DanglingAddress, 0))
    ELSE IF DescAddress(bytes) = 0 THEN NoParsed
    ELSE Parsed(OolData(DescAddress(bytes), DescSize(bytes)))

\* A match that hands out a SendRight for every port descriptor.
parsed_desc_all_send(d) ==
    IF ~d.ok THEN NoParsed
    ELSE IF d.kind = MACH_MSG_PORT_DESCRIPTOR
    THEN IF DescDisposition(d.bytes) \in {MACH_MSG_TYPE_MOVE_SEND, MACH_MSG_TYPE_MOVE_SEND_ONCE,
                                          MACH_MSG_TYPE_MOVE_RECEIVE}
         THEN Parsed(PortSend(DescName(d.bytes)))
         ELSE NoParsed
    ELSE IF d.kind = MACH_MSG_OOL_DESCRIPTOR THEN parsed_ool(d.bytes)
    ELSE NoParsed

\* DescParser::next, the match on the descriptor
parsed_desc(d) ==
    IF ~d.ok THEN NoParsed
    ELSE IF d.kind = MACH_MSG_PORT_DESCRIPTOR
    THEN CASE DescDisposition(d.bytes) = MACH_MSG_TYPE_MOVE_SEND ->
                  Parsed(PortSend(DescName(d.bytes)))
           [] DescDisposition(d.bytes) = MACH_MSG_TYPE_MOVE_SEND_ONCE ->
                  Parsed(PortSendOnce(DescName(d.bytes)))
           [] DescDisposition(d.bytes) = MACH_MSG_TYPE_MOVE_RECEIVE ->
                  Parsed(PortRecv(DescName(d.bytes)))
           [] OTHER -> NoParsed
    ELSE IF d.kind = MACH_MSG_OOL_DESCRIPTOR THEN parsed_ool(d.bytes)
    ELSE NoParsed

\* A next that hands out a DescParser after the last descriptor too.
next_parser_never_body(count, offset) == DescStage(count, offset)

\* DescParser::next, the parser returned when count descriptors remain
next_parser(count, offset) ==
    IF count > 0 THEN DescStage(count, offset) ELSE BodyStage(offset)

DescParser_next_result(p, d, parsed) ==
    [ok |-> parsed.ok, desc |-> parsed.desc,
     parser |-> IF parsed.ok THEN next_parser(p.count - 1, d.offset) ELSE NoParser]

\* DescParser::next
DescParser_next_impl(b, p, dbg, d) == DescParser_next_result(p, d, parsed_desc(d))

\* BodyParser::body
BodyParser_body(b, offset) == SubSeq(b.body, offset + 1, b.header.msgh_size - HeaderSize)

\* impl Drop for DescParser: what the loop does with one descriptor
parser_drop_descriptor(w, d) ==
    IF ~d.ok THEN WFail(w)
    ELSE IF d.kind = MACH_MSG_PORT_DESCRIPTOR
    THEN CASE DescDisposition(d.bytes) = MACH_MSG_TYPE_MOVE_SEND ->
                  WRel(w, Release(w.k, "SEND", DescName(d.bytes)))
           [] DescDisposition(d.bytes) = MACH_MSG_TYPE_MOVE_SEND_ONCE ->
                  WRel(w, Release(w.k, "SEND_ONCE", DescName(d.bytes)))
           [] DescDisposition(d.bytes) = MACH_MSG_TYPE_MOVE_RECEIVE ->
                  WRel(w, Release(w.k, "RECEIVE", DescName(d.bytes)))
           [] OTHER -> WFail(w)
    ELSE WFail(w)

\* impl Drop for DescParser: the loop over the remaining descriptors
RECURSIVE DescParser_drop_impl(_, _, _, _, _)
RECURSIVE parser_drop_step(_, _, _, _, _)
parser_drop_next(b, w, count, offset, dbg) ==
    IF ~w.ok THEN w ELSE DescParser_drop_impl(b, w, count, offset, dbg)

parser_drop_step(b, w, count, d, dbg) ==
    parser_drop_next(b, parser_drop_descriptor(w, d), count - 1, d.offset, dbg)

DescParser_drop_impl(b, w, count, offset, dbg) ==
    IF ~(count > 0) THEN w
    ELSE parser_drop_step(b, w, count, next_desc_impl(b, offset, TRUE, dbg), dbg)

\* drop(ParsedMsgHdr): the reply right, then the voucher
RECURSIVE drop_rights(_, _)
drop_rights(w, rights) ==
    IF rights = <<>> THEN w
    ELSE drop_rights(WRel(w, Release(w.k, Head(rights).class, Head(rights).name)),
                     Tail(rights))

\* impl Drop for MsgParser: drop(parse_header_impl(buffer))
drop_parsed(b, k, ph, dbg) ==
    IF ~ph.ok THEN WFail(WOk(k, <<>>, <<>>))
    ELSE DescParser_drop_impl(b, drop_rights(WOk(k, <<>>, <<>>), ph.reply \o ph.voucher),
                              ph.parser.count, ph.parser.offset, dbg)

MsgParser_drop_impl(b, k, dbg) == drop_parsed(b, k, parse_header_impl(b), dbg)

(***************************************************************************)
(* Sending the message of the builder, receiving it and parsing it.        *)
(***************************************************************************)
MsgIds == {42}

\* inline data the kernel takes (a multiple of 4 bytes): one that fits the
\* buffer and one that does not
MsgChunks == {Ramp(1, 4), Ramp(1, 4 * (BigCap \div 4 + 2))}

RecvCaps == {4096}

\* MsgBuilder::set_id
Builder_set_id(id) ==
    /\ ~panicked /\ builder.live
    /\ g.nops < MaxMsgOps
    /\ buffer' = [buffer EXCEPT !.header.msgh_id = id]
    /\ g' = [g EXCEPT !.nops = @ + 1]
    /\ io' = [io EXCEPT !.id = id]
    /\ UNCHANGED <<values, debug_build, panicked, kernel, held, ools, builder,
                   queue, memory, parser>>

\* The part shared by SendRight::send and SendOnceRight::send.
Send(r) ==
    /\ buffer' = r.b
    /\ panicked' = ~r.ok
    /\ kernel' = r.k
    /\ queue' = queue \o r.msg
    /\ builder' = NoBuilder
    /\ io' = [io EXCEPT !.send = r.kr,
                        !.sent = <<r.b>>,
                        !.size = Len(as_slice(r.b)),
                        !.carried = IF r.msg = <<>> THEN <<>> ELSE r.msg[1].items]
    /\ UNCHANGED <<values, debug_build, ools, g, memory, parser>>

\* A send that takes the SendRight by value, as SendOnceRight::send does.
SendRight_send_by_value(name) ==
    /\ ~panicked /\ builder.live
    /\ held["SEND"][name] > 0
    /\ Send(send_impl(kernel, memory, buffer, name, MACH_MSG_TYPE_COPY_SEND))
    /\ held' = [held EXCEPT !["SEND"][name] = @ - 1]

\* SendRight::send(&self, msg)
SendRight_send(name) ==
    /\ ~panicked /\ builder.live
    /\ held["SEND"][name] > 0
    /\ Send(send_impl(kernel, memory, buffer, name, MACH_MSG_TYPE_COPY_SEND))
    /\ UNCHANGED held

\* SendOnceRight::send(self, msg): the wrapper is wrapped in ManuallyDrop too
SendOnceRight_send(name) ==
    /\ ~panicked /\ builder.live
    /\ held["SEND_ONCE"][name] > Lent("SEND_ONCE", name)
    /\ Send(send_impl(kernel, memory, buffer, name, MACH_MSG_TYPE_MOVE_SEND_ONCE))
    /\ held' = [held EXCEPT !["SEND_ONCE"][name] = @ - 1]

\* let mut buffer = Buffer::with_capacity(capacity), in place of the old one
Buffer_with_capacity(capacity) ==
    /\ ~panicked /\ ~builder.live /\ parser.stage = "none"
    /\ queue # <<>>
    /\ buffer.capacity # capacity
    /\ buffer' = with_capacity(capacity)
    /\ UNCHANGED <<values, debug_build, panicked, kernel, held, ools, builder, g, queue, memory,
                   parser, io>>

\* The messages queued on the port, by their place in the queue.
QueuedOn(port) == {i \in 1..Len(queue) : queue[i].dest.port = port}

Without(q, i) == SubSeq(q, 1, i - 1) \o SubSeq(q, i + 1, Len(q))

\* RecvRight::recv(&self, buffer): mach_msg(data, MACH_RCV_MSG, 0, 4096, name, ..)
\* waits for a message; the kernel writes it, header first, to the start of
\* the block and MsgParser::new takes the length from the header.
RecvRight_recv(name) ==
    /\ ~panicked /\ ~builder.live /\ parser.stage = "none"
    /\ held["RECEIVE"][name] > 0
    /\ QueuedOn(kernel.space[name].port) # {}
    /\ LET i == Lowest(QueuedOn(kernel.space[name].port))
           r == mach_msg_receive(kernel, memory, queue[i], name)
       IN  /\ r.ok
           /\ queue' = Without(queue, i)
           /\ IF r.header.msgh_size > RcvLimit
              THEN /\ io' = [io EXCEPT !.recv = "MACH_RCV_TOO_LARGE"]
                   /\ UNCHANGED <<buffer, panicked, kernel, memory, parser>>
              ELSE /\ kernel' = r.k
                   /\ memory' = r.mem
                   /\ buffer' = MsgParser_new(buffer, r).b
                   /\ panicked' = ~MsgParser_new(buffer, r).ok
                   /\ parser' = IF MsgParser_new(buffer, r).ok
                                THEN [stage |-> "msg", count |-> 0, offset |-> 0]
                                ELSE NoParser
                   /\ io' = [io EXCEPT !.recv = "MACH_MSG_SUCCESS", !.rx = r.rx]
    /\ UNCHANGED <<values, debug_build, held, ools, builder, g>>

\* The wrappers and buffers handed to the caller.
Given(h, rights) ==
    [c \in Classes |-> [n \in Names |->
        h[c][n] + Cardinality({i \in 1..Len(rights) :
                                  rights[i].class = c /\ rights[i].name = n})]]

GivenOol(descs) ==
    {[address |-> descs[i].address, size |-> descs[i].size] :
         i \in {j \in 1..Len(descs) : descs[j].class = "OOL"}}

\* MsgParser::parse_header(self)
MsgParser_parse_header ==
    /\ ~panicked /\ parser.stage = "msg"
    /\ LET r == parse_header_impl(buffer)
       IN  /\ panicked' = ~r.ok
           /\ parser' = r.parser
           /\ held' = Given(held, r.reply \o r.voucher)
           /\ io' = [io EXCEPT !.header = IF r.ok THEN <<[id |-> r.id, reply |-> r.reply]>>
                                          ELSE <<>>,
                               !.steps = Append(@, r.parser.stage)]
    /\ UNCHANGED <<values, buffer, debug_build, kernel, ools, builder, g, queue, memory>>

\* DescParser::next(self)
DescParser_next ==
    /\ ~panicked /\ parser.stage = "desc"
    /\ LET r == DescParser_next_impl(buffer, parser, debug_build,
                    next_desc_impl(buffer, parser.offset, TRUE, debug_build))
       IN  /\ panicked' = ~r.ok
           /\ parser' = r.parser
           /\ held' = Given(held, SelectSeq(r.desc, LAMBDA d : d.class # "OOL"))
           /\ ools' = ools \cup GivenOol(r.desc)
           /\ io' = [io EXCEPT !.got = @ \o r.desc,
                               !.steps = Append(@, r.parser.stage)]
    /\ UNCHANGED <<values, buffer, debug_build, kernel, builder, g, queue, memory>>

\* The part shared by the drops of the parsers.
ParserDropped(stage, w) ==
    /\ kernel' = w.k
    /\ panicked' = ~w.ok
    /\ parser' = NoParser
    /\ io' = [io EXCEPT !.dropped = stage, !.released = w.released,
                        !.unmapped = w.unmapped]
    /\ UNCHANGED <<values, buffer, debug_build, held, ools, builder, g, queue, memory>>

\* impl Drop for MsgParser
MsgParser_drop ==
    /\ ~panicked /\ parser.stage = "msg"
    /\ ParserDropped("msg", MsgParser_drop_impl(buffer, kernel, debug_build))

\* impl Drop for DescParser
DescParser_drop ==
    /\ ~panicked /\ parser.stage = "desc"
    /\ ParserDropped("desc", DescParser_drop_impl(buffer, WOk(kernel, <<>>, <<>>),
                                                  parser.count, parser.offset, debug_build))

\* A BodyParser goes out of scope: it has no drop code.
BodyParser_drop ==
    /\ ~panicked /\ parser.stage = "body"
    /\ parser' = NoParser
    /\ io' = [io EXCEPT !.dropped = "body"]
    /\ UNCHANGED <<values, buffer, debug_build, panicked, kernel, held, ools, builder, g, queue,
                   memory>>

\* impl Drop for RecvRight while messages are queued on the port: the kernel
\* destroys the port and the messages queued on it.
RecvRight_drop(name) ==
    /\ Right_drop("RECEIVE", name)
    /\ queue' = SelectSeq(queue, LAMBDA m : m.dest.port \in kernel'.ports)
    /\ UNCHANGED <<values, memory, parser, io>>

\* The test task: the port of the builder tests and a second port whose
\* receive right can travel in a message.
InitMsg ==
    /\ buffer = with_capacity(BigCap)
    /\ debug_build \in BOOLEAN
    /\ panicked = FALSE
    /\ kernel = [space |-> [n \in Names |->
                     IF n = 1 THEN [type |-> "send_recv", urefs |-> 1, port |-> 1]
                     ELSE IF n = 2 THEN [type |-> "send_once", urefs |-> 1, port |-> 1]
                     ELSE IF n = 3 THEN [type |-> "recv", urefs |-> 0, port |-> 2]
                     ELSE FreeEntry],
                 ports |-> {1, 2},
                 vm |-> {OolRegion.address}]
    /\ held = [NoRights EXCEPT !["RECEIVE"][1] = 1, !["SEND"][1] = 1, !["SEND_ONCE"][2] = 1,
                                !["RECEIVE"][3] = 1]
    /\ ools = {OolRegion}
    /\ builder = Builder_new
    /\ g = [NoHistory EXCEPT !.allocs = 2, !.made[1] = 1]
    /\ queue = <<>>
    /\ memory = {[address |-> OolRegion.address, bytes |-> OolBytes]}
    /\ parser = NoParser
    /\ io = NoIo
    /\ vec = NoVec
    /\ err = NoErr

\* The caller builds one message, may drop a receive right before sending it
\* (the destination or a port named in the message dies), sends, receives
\* and parses.
NextMsg ==
    \/ g.nops < MaxMsgOps /\ BuilderSteps({MACH_MSG_VIRTUAL_COPY}) /\ UNCHANGED ipcvars
    \/ \E d \in MsgChunks :
          g.nops < MaxMsgOps /\ Builder_append_inline_data(d) /\ UNCHANGED ipcvars
    \/ \E id \in MsgIds : Builder_set_id(id)
    \/ Builder_drop /\ UNCHANGED ipcvars
    \/ \E n \in Names : builder.live /\ RecvRight_drop(n)
    \/ \E n \in Names : SendRight_send(n)
    \/ \E n \in Names : SendOnceRight_send(n)
    \/ \E c \in RecvCaps : Buffer_with_capacity(c)
    \/ \E n \in Names : RecvRight_recv(n)
    \/ MsgParser_parse_header
    \/ DescParser_next
    \/ MsgParser_drop
    \/ DescParser_drop
    \/ BodyParser_drop

SpecMsg == InitMsg /\ [][NextMsg]_vars

(***************************************************************************)
(* Claims about the Buffer.                                                *)
(***************************************************************************)
\* C2: after any sequence of with_capacity, reserve, append and insert the
\* length never exceeds the capacity, so no byte of the body lies past the
\* allocated block.
C2_LenWithinCapacity ==
    /\ buffer.len <= buffer.capacity
    /\ buffer.len <= BlockBody(buffer.capacity)

\* C3: append(bytes) leaves the body equal to the previous body followed by
\* bytes, the length grown by Len(bytes) and the header unchanged, whether or
\* not the call had to grow the buffer.
C3_AppendConcatenates ==
    [][\A bytes \in Chunks :
          (BufAppend(bytes) /\ ~panicked') =>
              /\ buffer'.body = buffer.body \o bytes
              /\ buffer'.len = buffer.len + Len(bytes)
              /\ buffer'.header = buffer.header]_vars

\* C4: insert(at, bytes) with at <= len yields old[0..at] ++ bytes ++ old[at..]
\* and grows the length by Len(bytes); an offset greater than the length is
\* rejected by the assertion and changes nothing.
C4_InsertShifts ==
    [][\A bytes \in Chunks : \A at \in 0..(buffer.len + 1) :
          BufInsert(at, bytes) =>
              IF at <= buffer.len
              THEN panicked' \/
                   /\ buffer'.body = SubSeq(buffer.body, 1, at) \o bytes
                                        \o SubSeq(buffer.body, at + 1, buffer.len)
                   /\ buffer'.len = buffer.len + Len(bytes)
              ELSE panicked' /\ buffer' = buffer]_vars

(***************************************************************************)
(* Accounting shared by the claims.                                        *)
(***************************************************************************)
\* References the kernel accounts to the task on a name, other than the
\* receive right.
AccountedIn(k, n) ==
    LET e == k.space[n]
    IN  IF e.type \in {"send", "send_recv", "dead"} THEN e.urefs
        ELSE IF e.type = "send_once" THEN 1 ELSE 0

AccountedRefs(n) == AccountedIn(kernel, n)

Wrappers(n) == held["RECEIVE"][n] + held["SEND"][n] + held["SEND_ONCE"][n]

(***************************************************************************)
(* Claims about the builder.                                               *)
(***************************************************************************)
Unmaps(address) == Cardinality({i \in 1..Len(g.unmaps) : g.unmaps[i] = address})

\* C1: once a builder that was never sent has been dropped, every right moved
\* into it (reply slot or port descriptor) has been released exactly once, no
\* release was refused, and every consumed out-of-line region of non-zero size
\* has been unmapped exactly once (and nothing else was unmapped).
C1_DropReleasesEverything ==
    g.dropped =>
        /\ \A c \in Classes : \A n \in Names : g.released[c][n] = g.moved[c][n]
        /\ g.relfail = 0
        /\ \A r \in g.consumed : r.size > 0 => Unmaps(r.address) = 1
        /\ Len(g.unmaps) = Cardinality({r \in g.consumed : r.size > 0})

\* The body the calls made so far describe: the count, the descriptors in
\* the order they were appended, then the inline bytes.
ExpectedBody ==
    (IF g.descs = <<>> THEN <<>> ELSE LE(Len(g.descs), SIZE_SIZE) \o Flatten(g.descs))
        \o g.inline

\* C5: whatever the order of the descriptor and inline-data calls, the body is
\* the 4-byte descriptor count, the descriptors contiguous in append order,
\* then all the inline bytes; inline_data_off is where the inline bytes start.
C5_DescriptorsBeforeInline ==
    (builder.live /\ ~panicked) =>
        /\ buffer.body = ExpectedBody
        /\ buffer.len = Len(ExpectedBody)
        /\ builder.inline_data_off = Len(ExpectedBody) - Len(g.inline)

ReleasedTotal(gg) ==
    LET cn == Classes \X Names
        RECURSIVE Sum(_)
        Sum(S) == IF S = {} THEN 0
                  ELSE LET x == CHOOSE y \in S : TRUE
                       IN  gg.released[x[1]][x[2]] + Sum(S \ {x})
    IN  Sum(cn)

\* C6: a set_*_reply_port call releases the right previously moved into the
\* reply slot (Send or SendOnce) exactly once, releases nothing when the slot
\* was empty or held a made or copied right, and leaves in the header the name
\* and disposition of this call only.
C6_ReplyPortReplaced ==
    [][\A n \in Names :
          LET old == buffer.header.msgh_local_port
              disp == local(buffer.header.msgh_bits)
              was_moved == old # MACH_PORT_NULL /\
                           disp \in {MACH_MSG_TYPE_MOVE_SEND, MACH_MSG_TYPE_MOVE_SEND_ONCE}
              old_class == IF disp = MACH_MSG_TYPE_MOVE_SEND THEN "SEND" ELSE "SEND_ONCE"
              Released ==
                  /\ ~panicked'
                  /\ g'.relfail = g.relfail
                  /\ IF was_moved
                     THEN /\ g'.released[old_class][old] = g.released[old_class][old] + 1
                          /\ ReleasedTotal(g') = ReleasedTotal(g) + 1
                          /\ AccountedIn(kernel', old) = AccountedIn(kernel, old) - 1
                     ELSE /\ g'.released = g.released
                          /\ kernel' = kernel
              Holds(d) ==
                  /\ buffer'.header.msgh_local_port = n
                  /\ local(buffer'.header.msgh_bits) = d
          IN  /\ \A once \in BOOLEAN :
                    Builder_set_made_reply_port(n, once) =>
                        Released /\ Holds(IF once THEN MACH_MSG_TYPE_MAKE_SEND_ONCE
                                                  ELSE MACH_MSG_TYPE_MAKE_SEND)
              /\ Builder_set_copied_reply_port(n) =>
                    Released /\ Holds(MACH_MSG_TYPE_COPY_SEND)
              /\ \A c \in {"SEND", "SEND_ONCE"} :
                    Builder_set_moved_reply_port(c, n) => Released /\ Holds(MSG_TYPE(c))]_vars

C6_Witness ==
    /\ builder.live /\ ~panicked
    /\ g.nops = 2
    /\ g.moved["SEND"][1] = 1 /\ g.released["SEND"][1] = 1
    /\ buffer.header.msgh_local_port = 2
    /\ local(buffer.header.msgh_bits) = MACH_MSG_TYPE_MOVE_SEND_ONCE

(***************************************************************************)
(* Claims about the right wrappers.                                        *)
(***************************************************************************)
\* C7: each live wrapper stands for exactly one accounted reference: on every
\* name the kernel's reference count equals the number of live SendRight (and
\* SendOnceRight) wrappers holding the name, and the name holds the receive
\* right iff one live RecvRight holds it.
C7_OneReferencePerWrapper ==
    \A n \in Names :
        /\ AccountedRefs(n) = held["SEND"][n] + held["SEND_ONCE"][n]
        /\ held["RECEIVE"][n] = (IF HasReceive(kernel.space[n]) THEN 1 ELSE 0)

\* C8: cloning a SendRight N times and dropping all N+1 instances, in any
\* order, makes exactly N increments and N+1 decrements on the name, and the
\* kernel never refuses a release (nothing is released that is not held).
C8_CloneDropBalanced ==
    /\ g.failed = 0
    /\ \A n \in Names :
          /\ g.incs[n] = g.clones[n]
          /\ g.decs[n] = g.drops[n]
          /\ (held["SEND"][n] = 0 /\ g.made[n] = 1) => g.decs[n] = g.clones[n] + 1

C8_Witness ==
    \E n \in Names :
        /\ g.made[n] = 1 /\ g.clones[n] = 2 /\ held["SEND"][n] = 0
        /\ g.incs[n] = 2 /\ g.decs[n] = 3

\* C9: a drop whose decrement finds the right turned into a dead name (the
\* port died) retries exactly once, against the dead-name class, and that
\* retry takes the reference; any other drop makes one call.  So once the
\* receive right and the send rights made from it are dropped, in either
\* order, the name holds no reference.
C9_DeadNameRetry ==
    [][\A c \in {"SEND", "RECEIVE"} : \A n \in Names :
          Right_drop(c, n) =>
              /\ IF kernel.space[n].type = "dead"
                 THEN /\ g'.last = <<[right |-> c, kr |-> "KERN_INVALID_RIGHT"],
                                     [right |-> "DEAD_NAME", kr |-> "KERN_SUCCESS"]>>
                      /\ AccountedRefs(n)' = AccountedRefs(n) - 1
                 ELSE g'.last = <<[right |-> c, kr |-> "KERN_SUCCESS"]>>
              /\ Wrappers(n)' = 0 => kernel'.space[n] = FreeEntry]_vars

C9_Witness ==
    /\ Len(g.last) = 2
    /\ g.allocs > 0
    /\ \A n \in Names : Wrappers(n) = 0 /\ kernel.space[n] = FreeEntry

\* C10: alloc() followed by drop leaves nothing allocated: a name is in use
\* only while a live wrapper holds it and a port exists only while a live
\* RecvRight holds it, so repeated alloc-then-drop never grows the namespace.
C10_AllocDropNoLeak ==
    /\ \A n \in Names : kernel.space[n].type # "free" => Wrappers(n) > 0
    /\ Cardinality(kernel.ports) = Cardinality({n \in Names : held["RECEIVE"][n] > 0})

C10_Witness ==
    /\ g.allocs = MaxAllocs
    /\ g.allocs > 1
    /\ kernel = EmptyKernel
    /\ g.last = <<[right |-> "RECEIVE", kr |-> "KERN_SUCCESS"]>>

(***************************************************************************)
(* Claims about sending, receiving and parsing.                            *)
(***************************************************************************)
SendFailed == io.send \notin {"none", "MACH_MSG_SUCCESS"}

\* C11: when send returns an error, every right moved into the message has
\* still been released exactly once and every consumed out-of-line region is
\* unmapped, so that nothing the message carried stays accounted to the
\* sender without an owner.
C11_FailedSendReleases ==
    SendFailed =>
        /\ \A c \in Classes : \A n \in Names : g.released[c][n] = g.moved[c][n]
        /\ \A r \in g.consumed : r.size > 0 => r.address \notin kernel.vm

\* The rights moved into the builder that are still in the message.
InMessage(c, n) == g.moved[c][n] - g.released[c][n]

\* The class of right a disposition puts in a message.
ClassOf(disposition) ==
    IF disposition = MACH_MSG_TYPE_MOVE_RECEIVE THEN "RECEIVE"
    ELSE IF disposition \in {MACH_MSG_TYPE_MAKE_SEND_ONCE, MACH_MSG_TYPE_MOVE_SEND_ONCE}
    THEN "SEND_ONCE" ELSE "SEND"

PortDescs(descs) == SelectSeq(descs, LAMBDA d : d[12] = MACH_MSG_PORT_DESCRIPTOR)
PortItems(items) == SelectSeq(items, LAMBDA i : i.kind = "port")
PortsOf(rx) == SelectSeq(rx, LAMBDA r : r.kind = "port")

\* The rights of a queued message, the reply right first.
RightsOf(m) ==
    (IF m.reply = NoRight THEN <<>> ELSE <<m.reply>>)
        \o [i \in 1..Len(PortItems(m.items)) |-> PortItems(m.items)[i].right]

\* C12: a successful send transfers each moved right to the message: the
\* sender loses exactly the references it moved (the library releases nothing
\* more), the message holds one right of the same class for each, also when
\* the moved right is the receive right of the destination port; the receiver
\* is accounted exactly one reference of that class per right and gets one
\* wrapper of that class for it.
C12_SendTransfersMoved ==
    [][/\ \A n \in Names :
             ((SendRight_send(n) \/ SendOnceRight_send(n))
                  /\ io'.send = "MACH_MSG_SUCCESS") =>
                 /\ g' = g
                 /\ \A m \in Names :
                       /\ AccountedIn(kernel', m) =
                              AccountedIn(kernel, m) - InMessage("SEND", m)
                                  - InMessage("SEND_ONCE", m)
                                  - (IF m = n /\ held' # held THEN 1 ELSE 0)
                       /\ HasReceive(kernel'.space[m]) <=>
                              (HasReceive(kernel.space[m]) /\ InMessage("RECEIVE", m) = 0)
                 /\ Len(PortItems(io'.carried)) = Len(PortDescs(g.descs))
                 /\ \A i \in 1..Len(PortDescs(g.descs)) :
                       LET d == PortDescs(g.descs)[i]
                           right == PortItems(io'.carried)[i].right
                       IN  /\ right.type = ClassOf(DescDisposition(d))
                           /\ right.port = kernel.space[DescName(d)].port
       /\ \A n \in Names :
             (RecvRight_recv(n) /\ io'.recv = "MACH_MSG_SUCCESS") =>
                 LET m == queue[Lowest(QueuedOn(kernel.space[n].port))]
                     rx == PortsOf(io'.rx)
                 IN  /\ Len(rx) = Len(RightsOf(m))
                     /\ \A i \in 1..Len(rx) :
                           /\ rx[i].class = RightsOf(m)[i].type
                           /\ kernel'.space[rx[i].name].port = RightsOf(m)[i].port
                     /\ \A mm \in Names :
                           /\ AccountedIn(kernel', mm) =
                                  AccountedIn(kernel, mm)
                                      + Cardinality({i \in 1..Len(rx) :
                                            rx[i].name = mm /\ rx[i].class # "RECEIVE"})
                           /\ HasReceive(kernel'.space[mm]) <=>
                                  \/ HasReceive(kernel.space[mm])
                                  \/ \E i \in 1..Len(rx) :
                                        rx[i].name = mm /\ rx[i].class = "RECEIVE"
       /\ (DescParser_next /\ ~panicked') =>
             LET d == io'.got[Len(io'.got)]
                 r == SelectSeq(io.rx, LAMBDA x : x.slot = "desc")[Len(io'.got)]
             IN  /\ Len(io'.got) = Len(io.got) + 1
                 /\ d.class = r.class
                 /\ d.class # "OOL" =>
                       /\ d.name = r.name
                       /\ held'[d.class][d.name] = held[d.class][d.name] + 1
                       /\ kernel' = kernel]_vars

\* A message that carries the receive right of its own destination port and
\* a moved send-once right has been sent.
C12_Witness ==
    /\ io.send = "MACH_MSG_SUCCESS"
    /\ Len(queue) = 1
    /\ \E i \in 1..Len(io.carried) :
          /\ io.carried[i].right.type = "RECEIVE"
          /\ io.carried[i].right.port = queue[1].dest.port
    /\ \E n \in Names : g.moved["SEND_ONCE"][n] = 1 /\ g.released["SEND_ONCE"][n] = 0
    /\ g.moved["RECEIVE"][1] = 1 /\ ~HasReceive(kernel.space[1])

\* The references the library has released on a name.
ReleasedOn(gg, n) == gg.released["SEND"][n] + gg.released["SEND_ONCE"][n]

\* The step leaves the reference count of every right the builder borrows
\* alone: the count of a name changes by the releases of rights moved into
\* the builder and by the moved rights the kernel takes, a borrowed receive
\* right stays, and nothing is released that was not moved.
BorrowedKept(lent, taken) ==
    /\ \A c \in Classes : \A n \in Names : g'.released[c][n] <= g'.moved[c][n]
    /\ \A n \in Names :
          (\E c \in Classes : <<c, n>> \in lent) =>
              /\ AccountedIn(kernel', n) =
                     AccountedIn(kernel, n) - (ReleasedOn(g', n) - ReleasedOn(g, n))
                         - taken[n]
              /\ <<"RECEIVE", n>> \in lent =>
                     /\ HasReceive(kernel'.space[n])
                     /\ held'["RECEIVE"][n] = held["RECEIVE"][n]
              /\ <<"SEND", n>> \in lent => held'["SEND"][n] >= 1

NoneTaken == [n \in Names |-> 0]

\* C13: a right added in made mode (set_made_reply_port,
\* append_made_send_right) or in copied mode (set_copied_reply_port,
\* append_copied_send_right) never changes the sender's reference count on
\* the borrowed right: not when it is added, not when the message is sent
\* (whether or not the kernel takes it), not when the builder is dropped
\* unsent.
C13_BorrowedCountUnchanged ==
    [][/\ \A n \in Names :
             /\ \A once \in BOOLEAN :
                   (Builder_set_made_reply_port(n, once)
                        \/ Builder_append_made_send_right(n, once)) =>
                       /\ BorrowedKept(builder'.lent, NoneTaken)
                       /\ <<"RECEIVE", n>> \in builder'.lent
                       /\ held' = held
             /\ (Builder_set_copied_reply_port(n) \/ Builder_append_copied_send_right(n)) =>
                   /\ BorrowedKept(builder'.lent, NoneTaken)
                   /\ <<"SEND", n>> \in builder'.lent
                   /\ held' = held
             /\ (SendRight_send(n) \/ SendOnceRight_send(n)) =>
                   BorrowedKept(builder.lent,
                                [m \in Names |->
                                    IF io'.send # "MACH_MSG_SUCCESS" THEN 0
                                    ELSE InMessage("SEND", m) + InMessage("SEND_ONCE", m)
                                             + (IF m = n /\ held' # held THEN 1 ELSE 0)])
       /\ Builder_drop => BorrowedKept(builder.lent, NoneTaken)]_vars

\* A message holding a made reply right and a copied send right has been
\* sent: the sender's name still holds its one send reference and the
\* receive right.
C13_Witness ==
    /\ ~builder.live /\ ~panicked
    /\ io.send = "MACH_MSG_SUCCESS"
    /\ g.nops = 2
    /\ \E i \in 1..Len(g.descs) : DescDisposition(g.descs[i]) = MACH_MSG_TYPE_COPY_SEND
    /\ local(io.sent[1].header.msgh_bits) = MACH_MSG_TYPE_MAKE_SEND
    /\ kernel.space[1] = [type |-> "send_recv", urefs |-> 1, port |-> 1]
    /\ held["SEND"][1] = 1 /\ held["RECEIVE"][1] = 1

\* The kind of parsed descriptor the claim expects for an appended one.
ExpectedKind(d) ==
    IF d[12] # MACH_MSG_PORT_DESCRIPTOR THEN "OolData"
    ELSE IF ClassOf(DescDisposition(d)) = "RECEIVE" THEN "PortRecv"
    ELSE IF ClassOf(DescDisposition(d)) = "SEND_ONCE" THEN "PortSendOnce"
    ELSE "PortSend"

\* C14: round trip: after any sequence of builder operations, a successful
\* send and a receive, parsing yields the id given to set_id, one parsed
\* descriptor per appended descriptor, in order and of the matching kind, and
\* a body equal to the inline bytes appended, also when inline data was
\* appended before the descriptors.
C14_RoundTrip ==
    /\ io.header # <<>> => io.header[1].id = io.id
    /\ (parser.stage = "body" /\ ~panicked) =>
          /\ Len(io.got) = Len(g.descs)
          /\ \A i \in 1..Len(io.got) : io.got[i].kind = ExpectedKind(g.descs[i])
          /\ BodyParser_body(buffer, parser.offset) = g.inline

\* C15: the reply right parse_header returns has the class that was encoded:
\* a reply port set with set_made_reply_port(once = false) (disposition
\* MAKE_SEND) is parsed as a Send right, with once = true (MAKE_SEND_ONCE) as
\* a SendOnce right, a copied or moved one as its own class, and a message
\* sent with no reply port yields no reply right.
C15_ReplyClassParsed ==
    [][(MsgParser_parse_header /\ ~panicked') =>
          LET h == io.sent[1].header
              reply == io'.header[1].reply
          IN  IF h.msgh_local_port = MACH_PORT_NULL THEN reply = <<>>
              ELSE /\ Len(reply) = 1
                   /\ local(h.msgh_bits) = MACH_MSG_TYPE_MAKE_SEND => reply[1].class = "SEND"
                   /\ local(h.msgh_bits) = MACH_MSG_TYPE_MAKE_SEND_ONCE =>
                          reply[1].class = "SEND_ONCE"
                   /\ reply[1].class = ClassOf(local(h.msgh_bits))
                   /\ held'[reply[1].class][reply[1].name] =
                          held[reply[1].class][reply[1].name] + 1]_vars

\* A message sent over a send right with a reply port made with once = true
\* has been parsed: the reply right is a SendOnce right.
C15_Witness ==
    /\ io.header # <<>> /\ ~panicked
    /\ io.sent[1].header.msgh_remote_port = 1
    /\ remote(io.sent[1].header.msgh_bits) = MACH_MSG_TYPE_COPY_SEND
    /\ local(io.sent[1].header.msgh_bits) = MACH_MSG_TYPE_MAKE_SEND_ONCE
    /\ Len(io.header[1].reply) = 1
    /\ io.header[1].reply[1].class = "SEND_ONCE"

OolDescs(descs) == SelectSeq(descs, LAMBDA d : d[12] = MACH_MSG_OOL_DESCRIPTOR)
OolGot == SelectSeq(io.got, LAMBDA d : d.class = "OOL")

\* C16: out-of-line round trip: data appended with append_ool_data or
\* append_consumed_ool_data is received as one OolData descriptor each, whose
\* length and bytes equal the original; after a successful send the sender
\* never unmaps a consumed region (the kernel has taken it, once) and a
\* borrowed region stays mapped in the sender.
C16_OolRoundTrip ==
    /\ \A i \in 1..Len(OolGot) :
          /\ OolGot[i].size = OolRegion.size
          /\ OolGot[i].address \in kernel.vm
          /\ RegionBytes(memory, OolGot[i].address) = OolBytes
          /\ [address |-> OolGot[i].address, size |-> OolGot[i].size] \in ools
    /\ (parser.stage = "body" /\ ~panicked) => Len(OolGot) = Len(OolDescs(g.descs))
    /\ io.send = "MACH_MSG_SUCCESS" =>
          /\ g.unmaps = <<>>
          /\ \A r \in g.consumed : r.address \notin kernel.vm /\ r \notin ools
          /\ \A i \in 1..Len(OolDescs(g.descs)) :
                DescDeallocate(OolDescs(g.descs)[i]) = 0 =>
                    /\ DescAddress(OolDescs(g.descs)[i]) \in kernel.vm
                    /\ OolRegion \in ools

\* A consumed region has gone through send, recv and the parser: the
\* receiver holds the bytes at a new address, the sender's pages are gone.
C16_Witness ==
    /\ parser.stage = "body" /\ ~panicked
    /\ g.consumed = {OolRegion}
    /\ Len(OolGot) = 1
    /\ OolGot[1].address # OolRegion.address
    /\ OolRegion.address \notin kernel.vm

RxDescs == SelectSeq(io.rx, LAMBDA r : r.slot = "desc")

\* The drop of a parser has released each of the entries exactly once (the
\* right of a port, the region of out-of-line data) and nothing else.
ReleasedOnce(entries) ==
    /\ \A i \in 1..Len(io.released) : io.released[i].kr = "KERN_SUCCESS"
    /\ \A c \in Classes : \A n \in Names :
          Cardinality({i \in 1..Len(io.released) :
                          io.released[i].class = c /\ io.released[i].name = n})
              = Cardinality({i \in 1..Len(entries) :
                                entries[i].class = c /\ entries[i].name = n})
    /\ \A i \in 1..Len(entries) :
          entries[i].kind = "ool" =>
              /\ entries[i].address \notin kernel.vm
              /\ Cardinality({j \in 1..Len(io.unmapped) :
                                 io.unmapped[j] = entries[i].address}) = 1
    /\ Len(io.unmapped) = Len(SelectSeq(entries, LAMBDA r : r.kind = "ool"))

\* C17: dropping the MsgParser returned by recv without calling parse_header
\* releases the reply right of the header and the right or out-of-line
\* region of every descriptor exactly once each, whatever the number and
\* kind of the descriptors.
C17_MsgParserDropReleases ==
    io.dropped = "msg" => (~panicked /\ ReleasedOnce(io.rx))

\* C18: dropping a DescParser with descriptors remaining releases each
\* remaining descriptor exactly once (the right of a port descriptor, the
\* region of an out-of-line descriptor) and none that next() has returned, so
\* that every descriptor of the message is returned once or released once.
C18_DescParserDropReleases ==
    io.dropped = "desc" =>
        /\ ~panicked
        /\ ReleasedOnce(SubSeq(RxDescs, Len(io.got) + 1, Len(RxDescs)))
        /\ Len(io.got) + Len(io.released) + Len(io.unmapped) = Len(RxDescs)

\* The end of the descriptor table of the received message.
TableEnd ==
    SIZE_SIZE + PortDescSize * Len(SelectSeq(RxDescs, LAMBDA r : r.kind = "port"))
              + OolDescSize * Len(SelectSeq(RxDescs, LAMBDA r : r.kind = "ool"))

\* C19: the parser is a linear three-state machine with no way back:
\* parse_header yields a DescParser iff the message has descriptors and
\* otherwise a BodyParser at offset 0; with n > 0 descriptors next() yields a
\* DescParser for the first n - 1 calls and a BodyParser on the n-th call,
\* whose offset is the end of the descriptor table.
C19_ParserStages ==
    [][/\ (MsgParser_parse_header /\ ~panicked') =>
             /\ parser.stage = "msg"
             /\ parser' = IF Len(RxDescs) > 0
                          THEN [stage |-> "desc", count |-> Len(RxDescs), offset |-> SIZE_SIZE]
                          ELSE [stage |-> "body", count |-> 0, offset |-> 0]
       /\ (DescParser_next /\ ~panicked') =>
             /\ parser.stage = "desc"
             /\ Len(io'.got) = Len(io.got) + 1
             /\ IF Len(io'.got) < Len(RxDescs)
                THEN /\ parser'.stage = "desc"
                     /\ parser'.count = Len(RxDescs) - Len(io'.got)
                ELSE /\ Len(io'.got) = Len(RxDescs)
                     /\ parser' = [stage |-> "body", count |-> 0, offset |-> TableEnd]
       /\ parser.stage = "desc" => parser'.stage \in {"desc", "body", "none"}
       /\ parser.stage = "body" => parser'.stage \in {"body", "none"}
       /\ parser'.stage = "msg" => parser.stage \in {"none", "msg"}]_vars

\* A message with two descriptors has been parsed to the body.
C19_Witness ==
    /\ ~panicked
    /\ Len(RxDescs) = 2
    /\ io.steps = <<"desc", "desc", "body">>
    /\ parser = [stage |-> "body", count |-> 0, offset |-> TableEnd]

\* C20: the capacity of a Buffer counts inline bytes only: a buffer created
\* with_capacity(n) receives any message whose body is at most n bytes, that
\* is recv returns a parser for it and fails no assertion.
C20_CapacityCountsBody ==
    [][\A n \in Names :
          (RecvRight_recv(n) /\ io'.recv = "MACH_MSG_SUCCESS"
               /\ buffer'.header.msgh_size - HeaderSize <= buffer.capacity) =>
              (~panicked' /\ parser'.stage = "msg")]_vars

(***************************************************************************)
(* msg/ool.rs: OolVec and OolBuf over one VmBuf.                           *)
(***************************************************************************)
align_up(value, alignment) == value + ((alignment - (value % alignment)) % alignment)

\* The outcome of a VmBuf operation: the kernel, the buffer and the
\* mach_vm_deallocate calls it made.
VmOut(ok, k, ptr, capacity, calls) ==
    [ok |-> ok, k |-> k, ptr |-> ptr, capacity |-> capacity, calls |-> calls]

\* The lowest address at which size bytes are free.
FreeAddress(k, size) ==
    VmAddress(CHOOSE r \in 1..(Cardinality(k.vm) + 1) :
                 /\ Pages(VmAddress(r), size) \cap k.vm = {}
                 /\ \A q \in 1..(r - 1) : Pages(VmAddress(q), size) \cap k.vm # {})

\* An alloc that asks the kernel for a region of capacity 0 too.
VmBuf_alloc_always(k, capacity) ==
    LET address == FreeAddress(k, Max(capacity, 1))
    IN  VmOut(TRUE, mach_vm_allocate(k, address, Max(capacity, 1)), address, capacity, <<>>)

\* VmBuf::alloc(capacity)
VmBuf_alloc(k, capacity) ==
    IF capacity > 0
    THEN LET address == FreeAddress(k, capacity)
         IN  VmOut(TRUE, mach_vm_allocate(k, address, capacity), address, capacity, <<>>)
    ELSE VmOut(TRUE, k, DanglingAddress, capacity, <<>>)

\* A shrink that rounds the target down to the page, not up.
shrink_to_down(k, ptr, cur_capacity, target_capacity) ==
    LET offset_in_page == ptr % PageSize
        aligned_capacity ==
            align_up(cur_capacity + offset_in_page, PageSize) - offset_in_page
        aligned_target_capacity ==
            target_capacity - ((target_capacity + offset_in_page) % PageSize)
        size == cur_capacity - aligned_target_capacity
        address == ptr + aligned_target_capacity
    IN  IF ~(target_capacity <= cur_capacity)
        THEN VmOut(FALSE, k, ptr, cur_capacity, <<>>)
        ELSE IF aligned_target_capacity < aligned_capacity
        THEN IF size < 0
             THEN VmOut(FALSE, k, ptr, cur_capacity, <<>>)
             ELSE VmOut(TRUE, mach_vm_deallocate(k, address, size),
                        IF aligned_target_capacity = 0 THEN DanglingAddress ELSE ptr,
                        target_capacity,
                        <<[address |-> address, size |-> size]>>)
        ELSE VmOut(TRUE, k, ptr, target_capacity, <<>>)

\* VmBuf::shrink_to(&mut self, target_capacity)
shrink_to(k, ptr, cur_capacity, target_capacity) ==
    LET offset_in_page == ptr % PageSize
        aligned_capacity ==
            align_up(cur_capacity + offset_in_page, PageSize) - offset_in_page
        aligned_target_capacity ==
            align_up(target_capacity + offset_in_page, PageSize) - offset_in_page
        size == cur_capacity - aligned_target_capacity
        address == ptr + aligned_target_capacity
    IN  IF ~(target_capacity <= cur_capacity)
        THEN VmOut(FALSE, k, ptr, cur_capacity, <<>>)
        ELSE IF aligned_target_capacity < aligned_capacity
        THEN IF size < 0
             THEN VmOut(FALSE, k, ptr, cur_capacity, <<>>)
             ELSE VmOut(TRUE, mach_vm_deallocate(k, address, size),
                        IF aligned_target_capacity = 0 THEN DanglingAddress ELSE ptr,
                        target_capacity,
                        <<[address |-> address, size |-> size]>>)
        ELSE VmOut(TRUE, k, ptr, target_capacity, <<>>)

\* VmBuf::dealloc_impl, which impl Drop for VmBuf calls
dealloc_impl(k, ptr, capacity) ==
    VmOut(TRUE, VmBuf_drop(k, ptr, capacity).k, ptr, capacity,
          IF capacity > 0 THEN <<[address |-> ptr, size |-> capacity]>> ELSE <<>>)

\* The outcome of an OolVec operation.
VOk(v) == [v EXCEPT !.res = "ok"]
VErr(v, required_capacity, available_capacity) ==
    [v EXCEPT !.res = "err",
              !.required_capacity = required_capacity,
              !.available_capacity = available_capacity]
VPanic(v) == [v EXCEPT !.res = "panic"]

\* OolVec::unwrap() of a Result<(), NotEnoughCapacity>
Unwrapped(v) == IF v.res = "err" THEN VPanic(v) ELSE v

\* OolVec::set_len(&mut self, new_len)
OolVec_set_len(v, new_len) ==
    IF new_len < v.capacity THEN VOk([v EXCEPT !.len = new_len]) ELSE VPanic(v)

\* An extend that also takes the slice that is one byte too long.
try_extend_from_slice_over(v, slice) ==
    LET available_capacity == v.capacity - v.len
    IN  IF Len(slice) <= available_capacity + 1
        THEN VOk([v EXCEPT !.bytes = @ \o slice, !.len = @ + Len(slice)])
        ELSE VErr(v, Len(slice), available_capacity)

\* OolVec::try_extend_from_slice(&mut self, slice)
try_extend_from_slice(v, slice) ==
    LET available_capacity == v.capacity - v.len
    IN  IF Len(slice) <= available_capacity
        THEN VOk([v EXCEPT !.bytes = @ \o slice, !.len = @ + Len(slice)])
        ELSE VErr(v, Len(slice), available_capacity)

\* OolVec::try_push(&mut self, value)
try_push(v, value) == try_extend_from_slice(v, <<value>>)

\* OolVec::resize(&mut self, new_len, value): the tail is filled before the
\* length is set, and the slice of the vector is its first len bytes.
resize(v, new_len, value) ==
    LET available_capacity == v.capacity
        old_len == v.len
        filled == IF old_len < new_len
                  THEN v.bytes \o [i \in 1..(new_len - old_len) |-> value]
                  ELSE v.bytes
        set == OolVec_set_len(v, new_len)
    IN  IF new_len <= available_capacity
        THEN IF set.res = "ok"
             THEN [set EXCEPT !.bytes = SubSeq(filled, 1, new_len)]
             ELSE set
        ELSE VErr(v, new_len, available_capacity)

\* OolVec::pop(&mut self)
pop(v) ==
    IF v.len = 0 THEN VOk(v)
    ELSE VOk([v EXCEPT !.len = @ - 1, !.bytes = SubSeq(@, 1, Len(@) - 1)])

\* What an operation leaves in the history of the vector.
Noted(v, op, arg, new_len) ==
    [v EXCEPT !.op = op, !.arg = arg, !.new_len = new_len,
              !.old = <<v.len, v.capacity, v.bytes>>,
              !.nops = @ + 1]

\* A conversion that leaves the VmBuf in the vector, whose drop releases it.
OolBuf_from_untaken(k, v) ==
    LET s == shrink_to(k, v.ptr, v.capacity, v.len)
        rest == dealloc_impl(s.k, s.ptr, s.capacity)
    IN  IF ~s.ok THEN [k |-> k, v |-> VPanic(v)]
        ELSE [k |-> rest.k,
              v |-> VOk([v EXCEPT !.owner = "buf",
                                  !.ptr = s.ptr,
                                  !.capacity = s.capacity,
                                  !.len = s.capacity,
                                  !.calls = @ \o s.calls \o rest.calls])]

\* impl From<OolVec> for OolBuf: shrink_to_fit, then the VmBuf is taken out of
\* the vector, whose drop finds VmBuf::default().
OolBuf_from(k, v) ==
    LET s == shrink_to(k, v.ptr, v.capacity, v.len)
        rest == dealloc_impl(s.k, DanglingAddress, 0)
    IN  IF ~s.ok THEN [k |-> k, v |-> VPanic(v)]
        ELSE [k |-> rest.k,
              v |-> VOk([v EXCEPT !.owner = "buf",
                                  !.ptr = s.ptr,
                                  !.capacity = s.capacity,
                                  !.len = s.capacity,
                                  !.calls = @ \o s.calls \o rest.calls])]

\* impl From<OolBuf> for OolVec
OolVec_from(v) == VOk([v EXCEPT !.owner = "vec", !.len = v.capacity])

\* The capacities, lengths and bytes the vector is asked for.
OolCaps == {0, 1, MaxCap, PageSize + 1}
OolLens == 0..(MaxCap + 1)
OolValues == 1..NumBytes

\* OolVec::with_capacity(capacity)
OolVec_with_capacity(capacity) ==
    /\ ~panicked
    /\ vec.owner = "none"
    /\ LET a == VmBuf_alloc(kernel, capacity)
       IN  /\ kernel' = a.k
           /\ vec' = [NoVec EXCEPT !.owner = "vec", !.ptr = a.ptr,
                                   !.capacity = a.capacity,
                                   !.op = "with_capacity", !.res = "ok",
                                   !.region = Pages(a.ptr, capacity)]
    /\ UNCHANGED <<buffer, debug_build, panicked, held, ools, builder, g, err>>

\* An operation on the live vector that leaves the kernel alone.
OolVecOp(after) ==
    /\ ~panicked
    /\ vec.owner = "vec"
    /\ vec.nops < MaxVecOps
    /\ vec' = after
    /\ panicked' = (after.res = "panic")
    /\ UNCHANGED <<buffer, debug_build, kernel, held, ools, builder, g, err>>

\* OolVec::extend_from_slice(&mut self, slice)
OolVec_extend_from_slice(slice) ==
    OolVecOp(Unwrapped(try_extend_from_slice(
                 Noted(vec, "extend_from_slice", slice, 0), slice)))

\* OolVec::push(&mut self, value)
OolVec_push(value) ==
    OolVecOp(Unwrapped(try_push(Noted(vec, "push", <<value>>, 0), value)))

\* OolVec::resize(&mut self, new_len, value)
OolVec_resize(new_len, value) ==
    OolVecOp(resize(Noted(vec, "resize", <<value>>, new_len), new_len, value))

\* OolVec::pop(&mut self)
OolVec_pop == OolVecOp(pop(Noted(vec, "pop", <<>>, 0)))

\* OolVec::into_buf(self)
OolVec_into_buf ==
    /\ ~panicked
    /\ vec.owner = "vec"
    /\ LET o == OolBuf_from(kernel, [Noted(vec, "into_buf", <<>>, 0)
                                       EXCEPT !.nops = vec.nops])
       IN  /\ kernel' = o.k
           /\ vec' = o.v
           /\ panicked' = (o.v.res = "panic")
    /\ UNCHANGED <<buffer, debug_build, held, ools, builder, g, err>>

\* OolBuf::into_vec(self)
OolBuf_into_vec ==
    /\ ~panicked
    /\ vec.owner = "buf"
    /\ vec' = OolVec_from([Noted(vec, "into_vec", <<>>, 0)
                             EXCEPT !.nops = vec.nops])
    /\ UNCHANGED <<buffer, debug_build, panicked, kernel, held, ools, builder, g, err>>

\* OolVec::shrink_to_fit(&mut self)
OolVec_shrink_to_fit ==
    /\ ~panicked
    /\ vec.owner = "vec"
    /\ vec.nops < MaxVecOps
    /\ LET v == Noted(vec, "shrink_to_fit", <<>>, 0)
           s == shrink_to(kernel, vec.ptr, vec.capacity, vec.len)
       IN  /\ kernel' = s.k
           /\ vec' = IF s.ok
                     THEN VOk([v EXCEPT !.ptr = s.ptr, !.capacity = s.capacity,
                                        !.calls = @ \o s.calls])
                     ELSE VPanic(v)
           /\ panicked' = ~s.ok
    /\ UNCHANGED <<buffer, debug_build, held, ools, builder, g, err>>

\* The OolVec or the OolBuf goes out of scope, in the unwinding of a panic
\* too: impl Drop for VmBuf.
Ool_drop ==
    /\ vec.owner \in {"vec", "buf"}
    /\ LET d == dealloc_impl(kernel, vec.ptr, vec.capacity)
       IN  /\ kernel' = d.k
           /\ vec' = [vec EXCEPT !.owner = "none", !.op = "drop",
                                 !.calls = @ \o d.calls]
    /\ UNCHANGED <<buffer, debug_build, panicked, held, ools, builder, g, err>>

NextOol ==
    \/ \E c \in OolCaps : OolVec_with_capacity(c) /\ UNCHANGED msgvars
    \/ \E s \in Chunks : OolVec_extend_from_slice(s) /\ UNCHANGED msgvars
    \/ \E b \in OolValues : OolVec_push(b) /\ UNCHANGED msgvars
    \/ \E n \in OolLens : \E b \in OolValues :
          OolVec_resize(n, b) /\ UNCHANGED msgvars
    \/ OolVec_pop /\ UNCHANGED msgvars
    \/ OolVec_shrink_to_fit /\ UNCHANGED msgvars
    \/ OolVec_into_buf /\ UNCHANGED msgvars
    \/ OolBuf_into_vec /\ UNCHANGED msgvars
    \/ Ool_drop /\ UNCHANGED msgvars

SpecOol == InitRights /\ [][NextOol]_vars

\* The regions a caller of from_raw_parts hands over: at the start of a page,
\* one byte into it and at its last byte; within a page, a whole page and
\* into the next page.
RawOffsets == {0, 1, PageSize - 1}
RawCaps == {0, 1, MaxCap, PageSize, PageSize + 1}
RawLens == 0..MaxChunk

\* unsafe OolVec::from_raw_parts(ptr, length, capacity) over a region mapped
\* by the Mach VM API, as its safety contract requires
OolVec_from_raw_parts(ptr, length, capacity) ==
    /\ ~panicked
    /\ vec.owner = "none" /\ vec.op = "none"
    /\ length <= capacity
    /\ Pages(ptr, capacity) \cap kernel.vm = {}
    /\ kernel' = mach_vm_allocate(kernel, ptr, capacity)
    /\ vec' = [NoVec EXCEPT !.owner = "vec", !.ptr = ptr, !.capacity = capacity,
                            !.len = length,
                            !.bytes = [i \in 1..length |-> 1 + (i % NumBytes)],
                            !.op = "from_raw_parts", !.res = "ok",
                            !.region = Pages(ptr, capacity)]
    /\ UNCHANGED <<buffer, debug_build, panicked, held, ools, builder, g, err>>

NextVm ==
    \/ NextOol
    \/ \E o \in RawOffsets : \E c \in RawCaps : \E n \in RawLens :
          OolVec_from_raw_parts(FreeAddress(kernel, PageSize + PageSize + 1) + o, n, c)
              /\ UNCHANGED msgvars

SpecVm == InitRights /\ [][NextVm]_vars

(***************************************************************************)
(* Claims about OolVec and OolBuf.                                         *)
(***************************************************************************)
\* The vector before its last operation.
OldLen == vec.old[1]
OldCapacity == vec.old[2]
OldBytes == vec.old[3]

\* The last operation left the length, the capacity and the bytes alone.
VecUntouched ==
    /\ vec.len = OldLen
    /\ vec.capacity = OldCapacity
    /\ vec.bytes = OldBytes

\* C21: resize(new_len, value) returns Ok for every new_len up to the
\* capacity, the capacity itself included: the length becomes new_len, the
\* positions below min(old_len, new_len) keep their bytes and the positions
\* from old_len to new_len hold value.  It returns NotEnoughCapacity only for
\* new_len above the capacity, and then the vector is unchanged.
C21_ResizeUpToCapacity ==
    vec.op = "resize" =>
        IF vec.new_len <= OldCapacity
        THEN /\ vec.res = "ok"
             /\ vec.len = vec.new_len
             /\ vec.capacity = OldCapacity
             /\ vec.bytes = [i \in 1..vec.new_len |->
                               IF i <= OldLen THEN OldBytes[i] ELSE vec.arg[1]]
        ELSE /\ vec.res = "err"
             /\ vec.required_capacity = vec.new_len
             /\ vec.available_capacity = OldCapacity
             /\ VecUntouched

\* C22: the capacity of an OolVec never grows.  extend_from_slice and push
\* succeed exactly when the bytes to add fit in capacity - length, and the
\* contents are then the old contents followed by the bytes; otherwise they
\* fail with NotEnoughCapacity (required: the bytes to add, available:
\* capacity - length), which the public forms turn into a panic, and the length
\* and the contents are unchanged.
C22_ExtendWithinCapacity ==
    /\ vec.owner = "vec" /\ vec.op # "with_capacity" => vec.capacity <= OldCapacity
    /\ vec.op \in {"extend_from_slice", "push"} =>
          /\ vec.capacity = OldCapacity
          /\ IF Len(vec.arg) <= OldCapacity - OldLen
             THEN /\ vec.res = "ok"
                  /\ vec.len = OldLen + Len(vec.arg)
                  /\ vec.bytes = OldBytes \o vec.arg
             ELSE /\ vec.res = "panic"
                  /\ vec.required_capacity = Len(vec.arg)
                  /\ vec.available_capacity = OldCapacity - OldLen
                  /\ vec.len = OldLen
                  /\ vec.bytes = OldBytes

\* An extend_from_slice that was one byte too long for a vector that held
\* bytes already.
C22_Witness ==
    /\ vec.op = "extend_from_slice"
    /\ vec.res = "panic"
    /\ OldLen > 0
    /\ Len(vec.arg) = OldCapacity - OldLen + 1

\* The pages the i-th mach_vm_deallocate call on the region released.
ReleasedBy(i) == Pages(vec.calls[i].address, vec.calls[i].size)

RECURSIVE BitAnd(_, _)
BitAnd(a, b) ==
    IF a = 0 \/ b = 0 THEN 0
    ELSE (a % 2) * (b % 2) + 2 * BitAnd(a \div 2, b \div 2)
BitOr(a, b) == a + b - BitAnd(a, b)
BitAndNot(a, b) == a - BitAnd(a, b)

\* The bits of mach/message.h the error types name.
MACH_MSG_MASK == 15872
MACH_MSG_IPC_SPACE == 8192
MACH_MSG_VM_SPACE == 4096
MACH_MSG_IPC_KERNEL == 2048
MACH_MSG_VM_KERNEL == 1024
MACH_SEND_IN_PROGRESS == 268435457
MACH_RCV_IN_PROGRESS == 268451841

\* enum SendErrorKind, from MACH_SEND_IN_PROGRESS to MACH_SEND_INVALID_RT_OOL_SIZE
SendErrorKind ==
    {MACH_SEND_IN_PROGRESS + c :
        c \in {0, 1, 2, 3, 4, 6, 7, 8, 9, 10, 11, 12, 13, 14, 15, 16, 20}}

\* enum RecvErrorKind, from MACH_RCV_IN_PROGRESS to MACH_RCV_IN_PROGRESS_TIMED
RecvErrorKind == {MACH_RCV_IN_PROGRESS + c : c \in (0..14) \cup {16}}

ErrorTypes == {"SendError", "RecvError"}
KindsOf(type) == IF type = "SendError" THEN SendErrorKind ELSE RecvErrorKind

\* $kind::from_error_code(code), an Option: the kind with that code, if any.
from_error_code(type, code) == {k \in KindsOf(type) : k = code}

\* $name::from_kind(kind)
from_kind(k) == k

\* $name::kind(self), as the Option it unwraps: the call panics on None.
kind(type, bits) == from_error_code(type, BitAndNot(bits, MACH_MSG_MASK))

\* The four flags and the bit of each.
ErrorFlags == {"vm_space", "vm_kernel", "ipc_space", "ipc_kernel"}
FlagBit(flag) ==
    CASE flag = "vm_space" -> MACH_MSG_VM_SPACE
      [] flag = "vm_kernel" -> MACH_MSG_VM_KERNEL
      [] flag = "ipc_space" -> MACH_MSG_IPC_SPACE
      [] flag = "ipc_kernel" -> MACH_MSG_IPC_KERNEL

\* $name::vm_space(self), vm_kernel, ipc_space, ipc_kernel
flag_of(bits, flag) == BitAnd(bits, FlagBit(flag)) = FlagBit(flag)

\* A setter that resets the whole of MACH_MSG_MASK.
set_flag_masked(bits, flag, value) ==
    IF value THEN BitOr(bits, FlagBit(flag)) ELSE BitAndNot(bits, MACH_MSG_MASK)

\* $name::set_vm_space(self, value), set_vm_kernel, set_ipc_space, set_ipc_kernel
set_flag(bits, flag, value) ==
    IF value THEN BitOr(bits, FlagBit(flag)) ELSE BitAndNot(bits, FlagBit(flag))

\* The raw values from_bits is given: success, an error with the one bit of
\* MACH_MSG_MASK that is no flag, an error with every bit of the mask.
RawBits ==
    {0, MACH_SEND_IN_PROGRESS + 512, MACH_RCV_IN_PROGRESS + MACH_MSG_MASK}

\* SendError::from_kind(kind), RecvError::from_kind(kind)
Error_from_kind(type, k) ==
    /\ err' = [NoErr EXCEPT !.type = type, !.bits = from_kind(k),
                            !.op = "from_kind", !.kind = k]
    /\ UNCHANGED <<buffer, debug_build, panicked, kernel, held, ools, builder, g, vec>>

\* SendError::from_bits(bits), RecvError::from_bits(bits)
Error_from_bits(type, bits) ==
    /\ err' = [NoErr EXCEPT !.type = type, !.bits = bits, !.op = "from_bits"]
    /\ UNCHANGED <<buffer, debug_build, panicked, kernel, held, ools, builder, g, vec>>

\* let e = e.set_vm_space(value), and the same for the three other flags
Error_set_flag(flag, value) ==
    /\ err.type # "none"
    /\ err' = [err EXCEPT !.bits = set_flag(err.bits, flag, value),
                          !.op = "set", !.flag = flag, !.value = value,
                          !.old = err.bits]
    /\ UNCHANGED <<buffer, debug_build, panicked, kernel, held, ools, builder, g, vec>>

NextError ==
    \/ \E t \in ErrorTypes : \E k \in KindsOf(t) :
          Error_from_kind(t, k) /\ UNCHANGED msgvars
    \/ \E t \in ErrorTypes : \E bits \in RawBits :
          Error_from_bits(t, bits) /\ UNCHANGED msgvars
    \/ \E f \in ErrorFlags : \E b \in BOOLEAN :
          Error_set_flag(f, b) /\ UNCHANGED msgvars

SpecError == InitRights /\ [][NextError]_vars

\* C24: the four diagnostic flags of a SendError or RecvError are
\* independent.  The setter of a flag, given b, makes the getter of that flag
\* return b and leaves kind() and the three other flags as they were; an
\* error made by from_kind(k) has the four flags clear and kind() = k.
C24_FlagsIndependent ==
    /\ err.op = "set" =>
          /\ flag_of(err.bits, err.flag) = err.value
          /\ kind(err.type, err.bits) = kind(err.type, err.old)
          /\ \A f \in ErrorFlags \ {err.flag} :
                flag_of(err.bits, f) = flag_of(err.old, f)
    /\ err.op = "from_kind" =>
          /\ \A f \in ErrorFlags : ~flag_of(err.bits, f)
          /\ kind(err.type, err.bits) = {err.kind}

\* A flag was reset in an error of a known kind while two other flags were
\* set.
C24_Witness ==
    /\ err.op = "set"
    /\ ~err.value
    /\ flag_of(err.old, err.flag)
    /\ kind(err.type, err.bits) # {}
    /\ Cardinality({f \in ErrorFlags : flag_of(err.bits, f)}) = 2

(***************************************************************************)
(* Sending more than once: after a send the caller makes a new builder     *)
(* over the same buffer and sends again.                                   *)
(***************************************************************************)
\* let msg = MsgBuilder::new(&mut buffer), over the buffer of the message
\* sent before
NewBuilder ==
    /\ ~panicked /\ ~builder.live
    /\ io.send # "none"
    /\ Len(queue) < MaxMsgOps
    /\ builder' = Builder_new
    /\ UNCHANGED <<buffer, debug_build, panicked, kernel, held, ools, g>>

NextSend ==
    \/ NewBuilder /\ UNCHANGED ipcvars
    \/ \E id \in MsgIds : Builder_set_id(id)
    \/ \E d \in MsgChunks :
          g.nops < MaxMsgOps /\ Builder_append_inline_data(d) /\ UNCHANGED ipcvars
    \/ \E n \in Names : \E once \in BOOLEAN :
          g.nops < MaxMsgOps /\ Builder_set_made_reply_port(n, once) /\ UNCHANGED ipcvars
    \/ \E n \in Names :
          g.nops < MaxMsgOps /\ Builder_append_copied_send_right(n) /\ UNCHANGED ipcvars
    \/ \E n \in Names : builder.live /\ RecvRight_drop(n)
    \/ \E n \in Names : SendRight_send(n)
    \/ \E n \in Names : SendOnceRight_send(n)

SpecSend == InitMsg /\ [][NextSend]_vars

\* C25: SendRight::send borrows the send right: when it returns, Ok or Err,
\* the wrapper is still held, the library has made no reference call and the
\* kernel accounts the same number of references to the name, so that the
\* wrapper can send again.  SendOnceRight::send takes the wrapper by value:
\* the caller holds one wrapper less, and the library makes no reference call
\* on the send-once right, which only the kernel takes, with the message.
C25_SendBorrowsSendOnceConsumes ==
    [][\A n \in Names :
          /\ (SendRight_send(n) /\ ~panicked') =>
                /\ held' = held
                /\ g' = g
                /\ AccountedIn(kernel', n) = AccountedIn(kernel, n)
                /\ held'["SEND"][n] > 0
          /\ (SendOnceRight_send(n) /\ ~panicked') =>
                /\ held'["SEND_ONCE"][n] = held["SEND_ONCE"][n] - 1
                /\ g' = g
                /\ AccountedIn(kernel', n) =
                       AccountedIn(kernel, n)
                           - (IF io'.send = "MACH_MSG_SUCCESS" THEN 1 ELSE 0)]_vars

\* The same SendRight has sent two messages, one after the other, while the
\* send-once right was not used.
C25_Witness ==
    /\ Len(queue) = 2
    /\ io.send = "MACH_MSG_SUCCESS"
    /\ held["SEND"][1] = 1
    /\ held["SEND_ONCE"][2] = 1

\* C26: reserve(additional) changes nothing when capacity - len >= additional;
\* otherwise the capacity becomes max(old capacity / 2, additional) + old
\* capacity.  Either way the length, the header and the body bytes are as
\* before and capacity - len >= additional afterwards.
C26_ReserveMakesRoom ==
    [][\A additional \in 0..MaxChunk :
          BufReserve(additional) =>
              /\ IF buffer.capacity - buffer.len >= additional
                 THEN buffer'.capacity = buffer.capacity
                 ELSE buffer'.capacity =
                          Max(buffer.capacity \div 2, additional) + buffer.capacity
              /\ buffer'.len = buffer.len
              /\ buffer'.header = buffer.header
              /\ buffer'.body = buffer.body
              /\ buffer'.capacity - buffer'.len >= additional]_vars

\* C27: after any sequence of builder calls on a fresh buffer the complex
\* flag is set exactly when a descriptor has been appended, and the count at
\* the start of the body is then the number of descriptors appended: 1 after
\* the first, one more after each later one.
C27_CountMatchesDescriptors ==
    (builder.live /\ ~panicked) =>
        /\ complex(buffer.header.msgh_bits) <=> Len(g.descs) > 0
        /\ descriptors_count(buffer) = Len(g.descs)

\* Two descriptors were appended after inline data, and inline data again
\* between them.
C27_Witness ==
    /\ builder.live /\ ~panicked
    /\ Len(g.descs) = 2
    /\ g.inline # <<>>
    /\ descriptors_count(buffer) = 2

\* Bytes the descriptor table takes at the start of the body.
TableBytes == IF g.descs = <<>> THEN 0 ELSE SIZE_SIZE + Len(Flatten(g.descs))

\* C28: in every state of the builder the inline-data offset is the end of
\* the descriptor table (0 without descriptors, otherwise 4 plus the sizes of
\* the descriptors appended), it does not exceed the length of the body, and
\* the length of the body is the count field plus the descriptor bytes plus
\* the inline bytes.
C28_InlineOffsetAfterTable ==
    (builder.live /\ ~panicked) =>
        /\ builder.inline_data_off = TableBytes
        /\ builder.inline_data_off <= buffer.len
        /\ buffer.len = TableBytes + Len(g.inline)

\* A port descriptor and an out-of-line descriptor were appended around
\* inline data.
C28_Witness ==
    /\ builder.live /\ ~panicked
    /\ g.inline # <<>>
    /\ builder.inline_data_off = SIZE_SIZE + PortDescSize + OolDescSize

\* The dispositions a field of the bits may hold.
Dispositions ==
    {0, MACH_MSG_TYPE_MOVE_RECEIVE, MACH_MSG_TYPE_MOVE_SEND,
     MACH_MSG_TYPE_MOVE_SEND_ONCE, MACH_MSG_TYPE_COPY_SEND,
     MACH_MSG_TYPE_MAKE_SEND, MACH_MSG_TYPE_MAKE_SEND_ONCE}

\* C29: in every header the builder and send have written, after any
\* sequence of set_*_reply_port calls, descriptor appends and a send, the
\* reserved bits of msgh_bits are zero and the remote, local and voucher
\* dispositions are each one of none, move-receive, move-send, move-send-once,
\* copy-send, make-send and make-send-once, so that no assertion of
\* MachMsgBits fails on it.
C29_BitsWellFormed ==
    io.recv = "none" =>
        LET bits == buffer.header.msgh_bits
        IN  /\ FromBitsOk(bits)
            /\ NewBitsOk(remote(bits), local(bits), voucher(bits))
            /\ bits.b0 \in Dispositions
            /\ bits.b1 \in Dispositions
            /\ bits.b2 \in Dispositions

\* A complex message whose reply port was set twice has been sent.
C29_Witness ==
    /\ io.recv = "none"
    /\ io.send = "MACH_MSG_SUCCESS"
    /\ g.nops = MaxMsgOps
    /\ complex(buffer.header.msgh_bits)
    /\ local(buffer.header.msgh_bits) = MACH_MSG_TYPE_COPY_SEND
    /\ remote(buffer.header.msgh_bits) = MACH_MSG_TYPE_MOVE_SEND_ONCE

\* The disposition send gives the destination.
SentAs(n) ==
    IF SendRight_send(n) THEN MACH_MSG_TYPE_COPY_SEND ELSE MACH_MSG_TYPE_MOVE_SEND_ONCE

\* C30: before the transfer, send writes the remote slot of the header and
\* nothing else: the name of the destination goes into msgh_remote_port and
\* the remote disposition becomes copy-send for SendRight::send and
\* move-send-once for SendOnceRight::send; the complex flag, the local and
\* voucher dispositions and ports, the id and the body are as the builder
\* left them, and the kernel is handed the header and the body, HeaderSize +
\* length bytes.
C30_SendWritesRemoteSlot ==
    [][\A n \in Names :
          ((SendRight_send(n) \/ SendOnceRight_send(n)) /\ ~panicked') =>
              /\ buffer'.header =
                     [buffer.header EXCEPT !.msgh_remote_port = n,
                                           !.msgh_bits.b0 = SentAs(n)]
              /\ buffer'.body = buffer.body
              /\ buffer'.len = buffer.len
              /\ io'.sent = <<buffer'>>
              /\ io'.size = HeaderSize + buffer.len]_vars

\* A complex message with a reply port and an id was sent by the SendRight
\* after the send-once right had sent another one.
C30_Witness ==
    /\ Len(queue) = 2
    /\ held["SEND_ONCE"][2] = 0
    /\ io.send = "MACH_MSG_SUCCESS"
    /\ remote(io.sent[1].header.msgh_bits) = MACH_MSG_TYPE_COPY_SEND
    /\ local(io.sent[1].header.msgh_bits) # 0
    /\ complex(io.sent[1].header.msgh_bits)
    /\ io.size > HeaderSize

(***************************************************************************)
(* Claims about the drop of the builder and the reuse of the buffer.       *)
(***************************************************************************)
\* The descriptors appended so far that lend a right or a region.
BorrowedDescs ==
    SelectSeq(g.descs, LAMBDA d :
        IF d[12] = MACH_MSG_PORT_DESCRIPTOR
        THEN DescDisposition(d) \in {MACH_MSG_TYPE_COPY_SEND, MACH_MSG_TYPE_MAKE_SEND,
                                     MACH_MSG_TYPE_MAKE_SEND_ONCE}
        ELSE DescDeallocate(d) = 0)

\* C31: the drop of an unsent builder releases nothing the builder does not
\* own.  It releases no more rights than were moved into the message and the
\* kernel refuses none of its releases; the references of the caller change
\* by these releases only, so that a port descriptor or a reply port in
\* copy-send, make-send or make-send-once mode changes no reference count; it
\* unmaps consumed regions only, so that the memory of an append_ool_data
\* descriptor stays mapped.
C31_DropKeepsBorrowed ==
    [][Builder_drop =>
          /\ held' = held
          /\ g'.relfail = g.relfail
          /\ \A c \in Classes : \A n \in Names :
                g'.released[c][n] - g.released[c][n] <= InMessage(c, n)
          /\ \A n \in Names :
                /\ AccountedIn(kernel', n) =
                       AccountedIn(kernel, n)
                           - (g'.released["SEND"][n] - g.released["SEND"][n])
                           - (g'.released["SEND_ONCE"][n] - g.released["SEND_ONCE"][n])
                /\ (HasReceive(kernel.space[n]) /\ InMessage("RECEIVE", n) = 0) =>
                       HasReceive(kernel'.space[n])
          /\ \A r \in ools : r.address \in kernel.vm => r.address \in kernel'.vm
          /\ \A i \in (Len(g.unmaps) + 1)..Len(g'.unmaps) :
                \E r \in g.consumed : r.address = g'.unmaps[i]]_vars

\* A builder that had borrowed the right of a port descriptor and the memory
\* of an out-of-line descriptor was dropped: it released nothing.
C31_Witness ==
    /\ g.dropped /\ ~panicked
    /\ Len(BorrowedDescs) = 2
    /\ Len(OolDescs(BorrowedDescs)) = 1
    /\ \A c \in Classes : \A n \in Names : g.moved[c][n] = 0 /\ g.released[c][n] = 0
    /\ g.unmaps = <<>>
    /\ OolRegion \in ools /\ OolRegion.address \in kernel.vm

\* impl Drop for MsgBuilder: the offsets of the loop, the one each step starts
\* at and then the one the loop ends with (or stops at, when a step fails)
RECURSIVE drop_offsets(_, _, _, _)
drop_offsets(b, count, offset, dbg) ==
    IF ~(count > 0) THEN <<offset>>
    ELSE LET d == next_desc_impl(b, offset, FALSE, dbg)
         IN  IF ~d.ok THEN <<offset>>
             ELSE <<offset>> \o drop_offsets(b, count - 1, d.offset, dbg)

\* Where the i-th descriptor appended so far starts in the body.
DescStart(i) == SIZE_SIZE + Len(Flatten(SubSeq(g.descs, 1, i - 1)))

\* The offsets of the walk of the builder's drop over the buffer as it is.
WalkOffsets == drop_offsets(buffer, descriptors_count(buffer), SIZE_SIZE, debug_build)

\* C32 as stated: the walk of the drop of a builder whose calls all returned
\* takes one step for each descriptor appended, each step starts at the first
\* byte of that descriptor, the walk ends at the builder's inline-data offset
\* (also when no descriptor was appended), and no assertion of the drop fails.
C32_WalkEndsAtInlineData ==
    [][(Builder_drop /\ ~panicked) =>
          /\ ~panicked'
          /\ Len(WalkOffsets) = Len(g.descs) + 1
          /\ \A i \in 1..Len(g.descs) : WalkOffsets[i] = DescStart(i)
          /\ WalkOffsets[Len(WalkOffsets)] = builder.inline_data_off]_vars

\* C32: the walk of the drop of a builder whose calls all returned takes one
\* step for each descriptor appended (none for a message without descriptors),
\* each step starts at the first byte of that descriptor, no assertion of the
\* drop fails, and the walk ends at the builder's inline-data offset when a
\* descriptor was appended; without descriptors its offset stays at the 4
\* bytes of the count while the inline-data offset is 0.
C32_WalkFollowsTable ==
    [][(Builder_drop /\ ~panicked) =>
          /\ ~panicked'
          /\ Len(WalkOffsets) = Len(g.descs) + 1
          /\ \A i \in 1..Len(g.descs) : WalkOffsets[i] = DescStart(i)
          /\ WalkOffsets[Len(WalkOffsets)] =
                 IF g.descs = <<>> THEN SIZE_SIZE ELSE builder.inline_data_off
          /\ g.descs = <<>> => builder.inline_data_off = 0]_vars

\* A builder with an out-of-line descriptor, a port descriptor and inline
\* data was dropped without a panic.
C32_Witness ==
    /\ g.dropped /\ ~panicked
    /\ Len(g.descs) = 2
    /\ g.descs[1][12] = MACH_MSG_OOL_DESCRIPTOR
    /\ g.descs[2][12] = MACH_MSG_PORT_DESCRIPTOR
    /\ g.inline # <<>>

(***************************************************************************)
(* Claims about the regions of VmBuf.                                      *)
(***************************************************************************)
\* No page is covered by two of the mach_vm_deallocate calls.
NoPageTwice(calls) ==
    \A i \in 1..Len(calls) : \A j \in (i + 1)..Len(calls) :
        Pages(calls[i].address, calls[i].size) \cap Pages(calls[j].address, calls[j].size) = {}

\* C33: shrink_to(target) with target <= capacity, whatever the base address:
\* no page holding one of the first target bytes is deallocated, the capacity
\* becomes target, and after the drop that follows every page of the region
\* has been deallocated, none of them twice; target = 0 included.
C33_ShrinkReleasesOnce ==
    [][(OolVec_shrink_to_fit /\ ~panicked') =>
          LET target_capacity == vec.len
              d == dealloc_impl(kernel', vec'.ptr, vec'.capacity)
          IN  /\ Pages(vec.ptr, target_capacity) \cap kernel.vm \subseteq kernel'.vm
              /\ vec'.capacity = target_capacity
              /\ vec.region \cap d.k.vm = {}
              /\ NoPageTwice(vec'.calls \o d.calls)]_vars

(***************************************************************************)
(* Regions of capacity 0.                                                  *)
(***************************************************************************)
\* OolBuf::default(): the dangling address, no byte
ZeroBuf == [address |-> DanglingAddress, size |-> 0]

\* OolVec::default()
OolVec_default ==
    /\ ~panicked
    /\ vec.owner = "none" /\ vec.op = "none"
    /\ vec' = [NoVec EXCEPT !.owner = "vec", !.op = "default", !.res = "ok"]
    /\ UNCHANGED <<buffer, debug_build, panicked, kernel, held, ools, builder, g, err>>

\* As InitMsg, and the caller also holds an OolBuf::default().
InitZero ==
    /\ buffer = with_capacity(BigCap)
    /\ debug_build \in BOOLEAN
    /\ panicked = FALSE
    /\ kernel = [space |-> [n \in Names |->
                     IF n = 1 THEN [type |-> "send_recv", urefs |-> 1, port |-> 1]
                     ELSE FreeEntry],
                 ports |-> {1},
                 vm |-> {OolRegion.address}]
    /\ held = [NoRights EXCEPT !["RECEIVE"][1] = 1, !["SEND"][1] = 1]
    /\ ools = {OolRegion, ZeroBuf}
    /\ builder = Builder_new
    /\ g = [NoHistory EXCEPT !.allocs = 1, !.made[1] = 1]
    /\ queue = <<>>
    /\ memory = {[address |-> OolRegion.address, bytes |-> OolBytes]}
    /\ parser = NoParser
    /\ io = NoIo
    /\ vec = NoVec
    /\ err = NoErr

\* The caller builds a message of out-of-line descriptors, drops it or sends,
\* receives and parses it, and makes, converts and drops a vector.
NextZero ==
    \/ \E d \in ools : g.nops < MaxMsgOps
           /\ Builder_append_ool_data(d, MACH_MSG_VIRTUAL_COPY) /\ UNCHANGED ipcvars
    \/ \E d \in ools : g.nops < MaxMsgOps
           /\ Builder_append_consumed_ool_data(d, MACH_MSG_VIRTUAL_COPY) /\ UNCHANGED ipcvars
    \/ Builder_drop /\ UNCHANGED ipcvars
    \/ \E n \in Names : SendRight_send(n)
    \/ \E c \in RecvCaps : Buffer_with_capacity(c)
    \/ \E n \in Names : RecvRight_recv(n)
    \/ MsgParser_parse_header
    \/ DescParser_next
    \/ BodyParser_drop
    \/ OolVec_default /\ UNCHANGED msgvars
    \/ \E c \in {0, 1} : OolVec_with_capacity(c) /\ UNCHANGED msgvars
    \/ OolVec_into_buf /\ UNCHANGED msgvars
    \/ OolBuf_into_vec /\ UNCHANGED msgvars
    \/ Ool_drop /\ UNCHANGED msgvars

SpecZero == InitZero /\ [][NextZero]_vars

\* The consumed regions that hold at least one byte.
ConsumedPages == {r.address : r \in {c \in g.consumed : c.size > 0}}

\* C34: a region of capacity 0 carries the non-null sentinel address and
\* causes no mach_vm_allocate or mach_vm_deallocate call: VmBuf::alloc(0),
\* the default OolVec and OolBuf and their drop, the OolBuf parsed from a
\* received out-of-line descriptor of size 0, and the drop of an unsent
\* builder that holds a consumed OolBuf of length 0.
C34_ZeroCapacityNoCalls ==
    /\ [](/\ DanglingAddress # 0
          /\ VmBuf_alloc(kernel, 0) = VmOut(TRUE, kernel, DanglingAddress, 0, <<>>)
          /\ (vec.owner # "none" /\ vec.capacity = 0) => vec.ptr = DanglingAddress
          /\ \A r \in ools : r.size = 0 => r.address = DanglingAddress
          /\ \A i \in 1..Len(io.got) :
                (io.got[i].class = "OOL" /\ io.got[i].size = 0) =>
                    io.got[i].address = DanglingAddress)
    /\ [][/\ (OolVec_default \/ OolVec_with_capacity(0)) =>
                 (kernel' = kernel /\ vec'.calls = <<>>)
          /\ (vec.capacity = 0 /\ (Ool_drop \/ OolVec_into_buf \/ OolBuf_into_vec)) =>
                 (kernel' = kernel /\ vec'.calls = vec.calls /\ vec'.capacity = 0)
          /\ DescParser_next => kernel' = kernel
          /\ (Builder_drop /\ ~panicked) =>
                 /\ ~panicked'
                 /\ kernel'.vm = kernel.vm \ ConsumedPages
                 /\ Len(g'.unmaps) = Len(g.unmaps) + Cardinality(ConsumedPages)]_vars

\* A consumed OolBuf of length 0 was sent, received and parsed, and a vector
\* of capacity 0 was dropped.
C34_Witness ==
    /\ ~panicked
    /\ ZeroBuf \in g.consumed
    /\ \E i \in 1..Len(io.got) : io.got[i].class = "OOL" /\ io.got[i].size = 0
    /\ vec.op = "drop" /\ vec.capacity = 0

(***************************************************************************)
(* One buffer, several messages.                                           *)
(***************************************************************************)
\* The buffer has held a message: one dropped unsent, sent or received.
Reused == g.dropped \/ io.send # "none" \/ io.recv # "none"

\* MsgBuilder::new(&mut buffer) over a buffer that has held a message
MsgBuilder_new_over ==
    /\ ~panicked /\ ~builder.live /\ parser.stage = "none"
    /\ Reused
    /\ g.nops < MaxOps
    /\ builder' = Builder_new
    /\ g' = [g EXCEPT !.nops = @ + 1, !.descs = <<>>, !.inline = <<>>]
    /\ UNCHANGED <<buffer, debug_build, panicked, kernel, held, ools>>

\* The caller builds a message, drops or sends it, receives and parses into
\* the same buffer, and builds the next message over it.
NextReuse ==
    \/ MsgBuilder_new_over /\ UNCHANGED ipcvars
    \/ \E d \in {Ramp(1, 4)} :
          g.nops < MaxOps /\ Builder_append_inline_data(d) /\ UNCHANGED ipcvars
    \/ \E c \in Classes : \E n \in Names :
          g.nops < MaxOps /\ Builder_append_moved_right(c, n) /\ UNCHANGED ipcvars
    \/ Builder_drop /\ UNCHANGED ipcvars
    \/ \E n \in Names : SendRight_send(n)
    \/ \E n \in Names : RecvRight_recv(n)
    \/ MsgParser_parse_header
    \/ DescParser_next
    \/ BodyParser_drop

\* As InitMsg, over a buffer that takes every message recv lets in.
InitReuse ==
    /\ buffer = with_capacity(RcvLimit)
    /\ debug_build \in BOOLEAN
    /\ panicked = FALSE
    /\ kernel = [space |-> [n \in Names |->
                     IF n = 1 THEN [type |-> "send_recv", urefs |-> 1, port |-> 1]
                     ELSE IF n = 2 THEN [type |-> "send_once", urefs |-> 1, port |-> 1]
                     ELSE FreeEntry],
                 ports |-> {1},
                 vm |-> {}]
    /\ held = [NoRights EXCEPT !["RECEIVE"][1] = 1, !["SEND"][1] = 1, !["SEND_ONCE"][2] = 1]
    /\ ools = {}
    /\ builder = Builder_new
    /\ g = [NoHistory EXCEPT !.allocs = 1, !.made[1] = 1]
    /\ queue = <<>>
    /\ memory = {}
    /\ parser = NoParser
    /\ io = NoIo
    /\ vec = NoVec
    /\ err = NoErr

SpecReuse == InitReuse /\ [][NextReuse]_vars

\* C35: a builder made over a buffer that has held a message starts from an
\* empty message (no body, no descriptor, no port and no bit in the header),
\* its appends give the count, the descriptors and the inline bytes of the
\* new message, and its drop does not panic, is refused no release and
\* releases no more than the rights moved into a builder and not yet released
\* or sent.
C35_BufferReusable ==
    /\ [][MsgBuilder_new_over =>
             /\ buffer'.len = 0
             /\ descriptors_count(buffer') = 0
             /\ buffer'.header.msgh_remote_port = MACH_PORT_NULL
             /\ buffer'.header.msgh_local_port = MACH_PORT_NULL
             /\ buffer'.header.msgh_bits = ZeroBits]_vars
    /\ []((builder.live /\ ~panicked /\ Reused) =>
             (buffer.len = Len(ExpectedBody)
                 /\ SubSeq(buffer.body, 1, buffer.len) = ExpectedBody))
    /\ [][(Builder_drop /\ ~panicked /\ Reused) =>
             /\ ~panicked'
             /\ g'.relfail = g.relfail
             /\ \A c \in Classes : \A n \in Names :
                   g'.released[c][n] - g.released[c][n] <= InMessage(c, n)]_vars

(***************************************************************************)
(* Claims about the buffer after recv.                                     *)
(***************************************************************************)
\* C36: after a successful recv the length of the buffer is the body size of
\* the received message (msgh_size less the header), as_slice() has the
\* msgh_size bytes of the received message and no more, and BodyParser::body
\* is the bytes from the end of the descriptor table to the end of the
\* message.
C36_LenIsBodySize ==
    (io.recv = "MACH_MSG_SUCCESS" /\ ~panicked /\ parser.stage # "none") =>
        /\ buffer.len = buffer.header.msgh_size - HeaderSize
        /\ Len(as_slice(buffer)) = buffer.header.msgh_size
        /\ parser.stage = "body" =>
              BodyParser_body(buffer, parser.offset) =
                  SubSeq(as_slice(buffer), HeaderSize + parser.offset + 1,
                         buffer.header.msgh_size)

\* C37: recv never lets the kernel write outside the block of the buffer: the
\* size limit it passes to mach_msg is at most the header and the capacity,
\* and the message a successful recv has written fits the block.
C37_RecvWithinBlock ==
    [][\A n \in Names :
          RecvRight_recv(n) =>
              /\ RcvLimit <= HeaderSize + buffer.capacity
              /\ io'.recv = "MACH_MSG_SUCCESS" =>
                    buffer'.header.msgh_size <= layout_for_capacity(buffer.capacity)]_vars

\* C38: whatever safe operations were made on an OolVec, its length is at
\* most its capacity; shrink_to_fit leaves the capacity equal to the length,
\* and the first length bytes as they were, at the same address and mapped.
C38_ShrinkToFitKeepsBytes ==
    /\ [](vec.owner = "vec" => (vec.len <= vec.capacity /\ Len(vec.bytes) = vec.len))
    /\ [][OolVec_shrink_to_fit =>
             /\ ~panicked'
             /\ vec'.capacity = vec.len
             /\ vec'.len = vec.len
             /\ vec'.bytes = vec.bytes
             /\ vec.len > 0 => vec'.ptr = vec.ptr
             /\ Pages(vec'.ptr, vec'.len) \subseteq kernel'.vm]_vars

\* A vector of two pages with one byte in it was shrunk: the second page is
\* gone, the byte is kept.
C38_Witness ==
    /\ vec.owner = "vec" /\ vec.op = "shrink_to_fit" /\ ~panicked
    /\ vec.len = 1 /\ vec.capacity = 1
    /\ OldCapacity = PageSize + 1
    /\ Len(vec.calls) = 1

(***************************************************************************)
(* drop_header on its own: headers with a reply port and a voucher.        *)
(***************************************************************************)
\* The reply slots and the voucher slots a header can hold: the name and the
\* disposition of a right the task has.
LocalSlots ==
    {<<MACH_PORT_NULL, 0>>, <<1, MACH_MSG_TYPE_MOVE_SEND>>, <<2, MACH_MSG_TYPE_MOVE_SEND_ONCE>>,
     <<1, MACH_MSG_TYPE_COPY_SEND>>, <<1, MACH_MSG_TYPE_MAKE_SEND>>,
     <<1, MACH_MSG_TYPE_MAKE_SEND_ONCE>>}
VoucherSlots ==
    {<<MACH_PORT_NULL, 0>>, <<3, MACH_MSG_TYPE_MOVE_SEND>>, <<3, MACH_MSG_TYPE_COPY_SEND>>}

\* The task has the right the slot names.
SlotHeld(k, slot) ==
    CASE slot[1] = MACH_PORT_NULL -> TRUE
      [] slot[2] \in {MACH_MSG_TYPE_MOVE_SEND, MACH_MSG_TYPE_COPY_SEND} ->
            HasSend(k.space[slot[1]]) /\ k.space[slot[1]].urefs > 0
      [] slot[2] = MACH_MSG_TYPE_MOVE_SEND_ONCE -> k.space[slot[1]].type = "send_once"
      [] OTHER -> HasReceive(k.space[slot[1]])

\* A receive right with two send references, a send-once right and a voucher
\* with two send references; a buffer with an empty header.
InitHeader ==
    /\ buffer = with_capacity(0)
    /\ debug_build \in BOOLEAN
    /\ panicked = FALSE
    /\ kernel = [space |-> [n \in Names |->
                     IF n = 1 THEN [type |-> "send_recv", urefs |-> 2, port |-> 1]
                     ELSE IF n = 2 THEN [type |-> "send_once", urefs |-> 1, port |-> 1]
                     ELSE IF n = 3 THEN [type |-> "send", urefs |-> 2, port |-> 2]
                     ELSE FreeEntry],
                 ports |-> {1, 2},
                 vm |-> {}]
    /\ held = NoRights
    /\ ools = {}
    /\ builder = NoBuilder
    /\ g = NoHistory
    /\ queue = <<>>
    /\ memory = {}
    /\ parser = NoParser
    /\ io = NoIo
    /\ vec = NoVec
    /\ err = NoErr

\* The header is given a reply port, a voucher and their dispositions.
Header_fill(l, v, cx) ==
    /\ ~panicked
    /\ g.nops < MaxOps
    /\ buffer.header.msgh_local_port = MACH_PORT_NULL
    /\ buffer.header.msgh_voucher_port = MACH_PORT_NULL
    /\ l[1] # MACH_PORT_NULL \/ v[1] # MACH_PORT_NULL
    /\ SlotHeld(kernel, l) /\ SlotHeld(kernel, v)
    /\ buffer' = [buffer EXCEPT !.header.msgh_local_port = l[1],
                                !.header.msgh_voucher_port = v[1],
                                !.header.msgh_bits = MachMsgBits_new(cx, 0, l[2], v[2])]
    /\ g' = [g EXCEPT !.nops = @ + 1, !.dropped = FALSE]
    /\ UNCHANGED <<debug_build, panicked, kernel, held, ools, builder>>

\* drop_header(header)
Header_drop ==
    /\ ~panicked
    /\ g.nops > 0 /\ ~g.dropped
    /\ LET r == drop_header(buffer.header, kernel)
       IN  /\ buffer' = [buffer EXCEPT !.header = r.h]
           /\ kernel' = r.k
           /\ panicked' = ~r.ok
           /\ g' = Logged([g EXCEPT !.dropped = TRUE], r.released)
    /\ UNCHANGED <<debug_build, held, ools, builder>>

NextHeader ==
    \/ \E l \in LocalSlots : \E v \in VoucherSlots : \E cx \in BOOLEAN :
          Header_fill(l, v, cx) /\ UNCHANGED ipcvars
    \/ Header_drop /\ UNCHANGED ipcvars

SpecHeader == InitHeader /\ [][NextHeader]_vars

\* The releases of the class on the name that the dispositions of the header
\* ask for.
Asked(h, c, n) ==
    (IF h.msgh_local_port = n
        /\ \/ c = "SEND" /\ local(h.msgh_bits) = MACH_MSG_TYPE_MOVE_SEND
           \/ c = "SEND_ONCE" /\ local(h.msgh_bits) = MACH_MSG_TYPE_MOVE_SEND_ONCE
     THEN 1 ELSE 0)
    + (IF h.msgh_voucher_port = n /\ c = "SEND"
          /\ voucher(h.msgh_bits) = MACH_MSG_TYPE_MOVE_SEND
       THEN 1 ELSE 0)

\* C39: drop_header releases the right of each slot by the disposition of that
\* slot, the reply slot by the local bits and the voucher slot by the voucher
\* bits (one send reference for move-send, none for copy-send); afterwards
\* both slots are null and the bits are the complex flag alone.
C39_SlotsByOwnDisposition ==
    [][Header_drop =>
          /\ ~panicked'
          /\ g'.relfail = g.relfail
          /\ \A c \in Classes : \A n \in Names :
                g'.released[c][n] = g.released[c][n] + Asked(buffer.header, c, n)
          /\ buffer'.header.msgh_local_port = MACH_PORT_NULL
          /\ buffer'.header.msgh_voucher_port = MACH_PORT_NULL
          /\ buffer'.header.msgh_bits =
                 MachMsgBits_new(complex(buffer.header.msgh_bits), 0, 0, 0)]_vars

====
